---- MODULE Spec2Model ----
(***************************************************************************)
(* A model of the concurrent core of the video analyzer:                   *)
(*   - ThreadPool      (src/src/thread_pool.cpp, thread_pool.h)            *)
(*   - StreamAnalyzer  (src/src/stream_analyzer.cpp) on a StreamDecoder    *)
(*   - VideoDecoder    (src/src/video_decoder.cpp) on the codec engine     *)
(* Each component has its own specification; the variables of the other    *)
(* components stay at their initial value.                                 *)
(***************************************************************************)
EXTENDS Integers, Sequences, FiniteSets, TLC

(***************************************************************************)
(* Bounds of the model.                                                    *)
(***************************************************************************)
MaxTasks == 2
MaxRequested == 2
MaxHardware == 2
NumSubmitters == 2
MaxFrames == 2
ExtraFrames == 2
MaxPackets == 4
MaxThreadCount == 2
MaxCores == 2
MaxReorder == 1
MaxPasses == 3
ScenarioLength == 12
MaxGopFrames == 3
MaxGopRuns == 2
MaxFileFrames == 2

VARIABLES
    \* ---- ThreadPool ----
    requested,      \* constructor argument numThreads
    hardware,       \* what std::thread::hardware_concurrency() reports
    workers_,       \* one record per worker thread: [pc, task]
    tasks_,         \* the task queue (task ids, front first)
    stop_,          \* the stop flag
    activeTasks_,   \* tasks dequeued and not yet finished
    condition_,     \* workers asleep in condition_.wait
    allTasksComplete_, \* TRUE while the waitAll caller is asleep in its wait
    taskThrows,     \* per task: does its body throw
    execCount,      \* per task: how many times its body has run
    future,         \* per task: state of the handle submit returned
    nextTask,       \* next task id to be submitted
    submitting,     \* tasks of the submit calls between enqueue and notify_one
    wapc,           \* position of the thread that calls waitAll
    waQueued,       \* tasks that had been enqueued when waitAll was invoked
    dpc,            \* position of the destructor
    djoin           \* index of the next worker the destructor joins

poolVars == <<requested, hardware, workers_, tasks_, stop_, activeTasks_,
              condition_, allTasksComplete_, taskThrows, execCount, future,
              nextTask, submitting, wapc, waQueued, dpc, djoin>>

VARIABLES
    \* ---- StreamAnalyzer and its StreamDecoder ----
    callers,        \* the threads that call start() and stop()
    lastCall,       \* what the latest start() or stop() call found
    cpc,            \* per calling thread: position inside start() / stop()
    running_,       \* std::atomic<bool> running_
    joinable,       \* analysisThread_ holds a thread that was not joined
    liveLoops,      \* threads created for analysisLoop and not yet joined
    terminated,     \* std::terminate was called
    lpc,            \* position of the background thread in analysisLoop
    frame,          \* the loop's local variable frame
    stage,          \* which of the three checks of detectAnomalies is running
    previousFrame_, \* std::optional<FrameInfo> previousFrame_
    frameWindow_,   \* std::deque<FrameInfo> frameWindow_
    anomalies_,     \* std::deque<Anomaly> anomalies_
    dataMutex_,     \* the holder of dataMutex_
    frameCallback_, \* a frame callback is registered
    anomalyCallback_, \* an anomaly callback is registered
    exportEnabled_, \* bool exportEnabled_
    sinkOpen,       \* streamingOutput_.is_open()
    exportedLines,  \* lines written to streamingOutput_
    frameCbCalls,   \* invocations of frameCallback_
    anomalyCbCalls, \* invocations of anomalyCallback_
    stopReturned,   \* stop() has returned and start() has not been called since
    streamActive,   \* StreamDecoder::Impl::streamActive
    srcMode,        \* what the live source delivers: "free" or "sustained"
    srcPos,         \* frames the live source has delivered
    srcTs           \* timestamp of the last frame delivered

callVars == <<callers, lastCall>>
ctlVars == <<callVars, cpc, running_, joinable, liveLoops, terminated, stopReturned>>
loopVars == <<lpc, frame, stage, previousFrame_>>
dataVars == <<frameWindow_, anomalies_, dataMutex_>>
outVars == <<frameCallback_, anomalyCallback_, exportEnabled_, sinkOpen,
             exportedLines, frameCbCalls, anomalyCbCalls>>
srcVars == <<streamActive, srcMode, srcPos, srcTs>>
anVars == <<ctlVars, loopVars, dataVars, outVars, srcVars>>

VARIABLES
    \* ---- VideoDecoder and the codec engine ----
    cores,          \* what std::thread::hardware_concurrency() reports
    threadCount,    \* VideoDecoder::Impl::threadCount
    packets,        \* the container's packets, in file order
    reorderDepth,   \* how many frames the codec must hold back to reorder
    filePos,        \* packets av_read_frame has returned since the last seek
    codecBuf,       \* packets sent to the codec whose frame it still holds
    endOfStream,    \* VideoDecoder::Impl::endOfStream
    lastPacketSize, \* VideoDecoder::Impl::lastPacketSize
    lastResult,     \* how the latest readNextFrame() call ended
    returned,       \* the records readNextFrame() returned in this pass
    passes          \* passes begun: 1 + the number of reset() calls

pumpVars == <<cores, threadCount, packets, reorderDepth, filePos, codecBuf,
              endOfStream, lastPacketSize, lastResult, returned, passes>>

VARIABLES
    \* ---- a thread that calls StreamAnalyzer's read APIs ----
    rpc,            \* position of the reader inside the call
    rkind,          \* which read API it called
    rwindow,        \* the argument windowSize, in ticks
    rcopy,          \* the local vector windowFrames
    rresult         \* what the latest call returned

readerVars == <<rpc, rkind, rwindow, rcopy, rresult>>

VARIABLES
    \* ---- GOPAnalyzer ----
    gopFrames,      \* the frames collected by GOPAnalyzer::analyze
    gops_,          \* std::vector<GOPInfo> gops_
    gopRuns         \* how many times analyze() has run

gopVars == <<gopFrames, gops_, gopRuns>>

VARIABLES
    \* ---- VideoAnalyzer ----
    file,           \* the frames a VideoDecoder yields for the file analyzed
    stream_info_,   \* StreamInfo stream_info_
    frames_,        \* std::vector<FrameInfo> frames_
    analyzedGops,   \* std::vector<GOPInfo> gops_ of the VideoAnalyzer
    outcome,        \* how the latest call ended
    lastConfig      \* the arguments of the latest detectDuplicateFrames

vaVars == <<file, stream_info_, frames_, analyzedGops, outcome, lastConfig>>

\* What the operations of each component leave alone.
outsidePool == <<anVars, pumpVars, readerVars, gopVars, vaVars>>
outsideAnalyzer == <<poolVars, pumpVars, readerVars, gopVars, vaVars>>
outsidePump == <<poolVars, anVars, readerVars, gopVars, vaVars>>
outsideReader == <<poolVars, pumpVars, gopVars, vaVars>>
outsideGop == <<poolVars, anVars, pumpVars, readerVars, vaVars>>
outsideVideo == <<poolVars, anVars, pumpVars, readerVars, gopVars>>

vars == <<poolVars, anVars, pumpVars, readerVars, gopVars, vaVars>>

Min(a, b) == IF a < b THEN a ELSE b
Max(a, b) == IF a > b THEN a ELSE b

Tasks == 1..MaxTasks
NoTask == 0

(***************************************************************************)
(* ThreadPool                                                              *)
(***************************************************************************)

\* ThreadPool::detectHardwareThreads: 1 when hardware_concurrency() is 0.
detectHardwareThreads(hc) == IF hc = 0 THEN 1 ELSE hc

\* Variant: the request is not limited to the hardware threads.
EffectiveThreads_Unclamped(r, hc) ==
    Max(IF r = 0 THEN detectHardwareThreads(hc) ELSE r, 1)

\* ThreadPool::ThreadPool: the number of worker threads created.
EffectiveThreads(r, hc) ==
    LET n0 == IF r = 0 THEN detectHardwareThreads(hc) ELSE r
        n1 == Min(n0, detectHardwareThreads(hc))
    IN  Max(n1, 1)

WorkerIds == 1..Len(workers_)

\* ThreadPool::getThreadCount
getThreadCount == Len(workers_)

\* The state after construction, for a requested thread count in R on a
\* machine whose hardware_concurrency() is in H.
PoolInitFor(R, H) ==
    /\ requested \in R
    /\ hardware \in H
    /\ workers_ = [w \in 1..EffectiveThreads(requested, hardware) |->
                      [pc |-> "lock", task |-> NoTask]]
    /\ tasks_ = <<>>
    /\ stop_ = FALSE
    /\ activeTasks_ = 0
    /\ condition_ = {}
    /\ allTasksComplete_ = FALSE
    /\ taskThrows = [t \in Tasks |-> FALSE]
    /\ execCount = [t \in Tasks |-> 0]
    /\ future = [t \in Tasks |-> "none"]
    /\ nextTask = 1
    /\ submitting = {}
    /\ wapc = "idle"
    /\ waQueued = {}
    /\ dpc = "alive"
    /\ djoin = 1

\* Pools of 1..MaxRequested threads on a machine with MaxHardware cores.
PoolInit == PoolInitFor(1..MaxRequested, {MaxHardware})

\* Variant: the stop check of submit is missing.
SubmitRejects_Never == FALSE

\* thread_pool.h:66: submit refuses once the stop flag is set.
SubmitRejects == stop_

\* thread_pool.h:70: the task is appended to the queue.
EnqueueTask(t) == Append(tasks_, t)

\* submit, thread_pool.h:56-71: build the packaged task and, under the lock,
\* either throw (pool stopped) or enqueue. At most NumSubmitters threads are
\* inside submit at a time.
Submit_Enqueue(thr) ==
    /\ Cardinality(submitting) < NumSubmitters
    /\ dpc # "done"
    /\ nextTask <= MaxTasks
    /\ LET t == nextTask IN
       /\ nextTask' = nextTask + 1
       /\ taskThrows' = [taskThrows EXCEPT ![t] = thr]
       /\ IF SubmitRejects
          THEN /\ future' = [future EXCEPT ![t] = "PoolClosed"]
               /\ UNCHANGED <<tasks_, submitting>>
          ELSE /\ tasks_' = EnqueueTask(t)
               /\ future' = [future EXCEPT ![t] = "pending"]
               /\ submitting' = submitting \cup {t}
    /\ UNCHANGED <<requested, hardware, workers_, stop_, activeTasks_,
                   condition_, allTasksComplete_, execCount, wapc, waQueued,
                   dpc, djoin>>
    /\ UNCHANGED outsidePool

\* thread_pool.h:73: condition_.notify_one() wakes one sleeping worker, if any.
NotifyOne(woken) == IF woken = NoTask THEN condition_ ELSE condition_ \ {woken}

\* submit, thread_pool.h:73-74: condition_.notify_one() and return the future.
Submit_Notify(t) ==
    /\ t \in submitting
    /\ \E w \in (IF condition_ = {} THEN {NoTask} ELSE condition_) :
          condition_' = NotifyOne(w)
    /\ submitting' = submitting \ {t}
    /\ UNCHANGED <<requested, hardware, workers_, tasks_, stop_,
                   activeTasks_, allTasksComplete_, taskThrows, execCount,
                   future, nextTask, wapc, waQueued, dpc, djoin>>
    /\ UNCHANGED outsidePool

\* The tasks a submit call has enqueued (thread_pool.h:70).
Accepted == {t \in Tasks : future[t] \in {"pending", "value", "exception"}}

\* The tasks for which a submit call has returned a handle.
submitReturned == Accepted \ submitting

\* thread_pool.cpp:65: the predicate a worker waits for.
WorkerWaitPred == stop_ \/ tasks_ # <<>>

\* Variant: a worker returns as soon as the stop flag is set.
WorkerShouldExit_OnStop == stop_

\* thread_pool.cpp:69: a worker returns from workerThread.
WorkerShouldExit == stop_ /\ tasks_ = <<>>

\* Variant: the front task is copied but not popped.
QueueAfterPop_Kept == tasks_

\* thread_pool.cpp:76: tasks_.pop().
QueueAfterPop == Tail(tasks_)

\* thread_pool.cpp:77: ++activeTasks_ in the critical section of the dequeue.
ActiveAfterDequeue == activeTasks_ + 1

\* workerThread, thread_pool.cpp:61-79: with the lock held, wait for the
\* predicate; then exit, or dequeue the front task and count it active.
\* Runs when the worker arrives at the lock or has been woken from the wait.
Worker_Check(w) ==
    /\ w \in WorkerIds
    /\ workers_[w].pc = "lock" \/ (workers_[w].pc = "waiting" /\ w \notin condition_)
    /\ IF ~WorkerWaitPred
       THEN /\ workers_' = [workers_ EXCEPT ![w].pc = "waiting"]
            /\ condition_' = condition_ \cup {w}
            /\ UNCHANGED <<tasks_, activeTasks_>>
       ELSE IF WorkerShouldExit
       THEN /\ workers_' = [workers_ EXCEPT ![w].pc = "exited"]
            /\ UNCHANGED <<tasks_, activeTasks_, condition_>>
       ELSE IF tasks_ # <<>>
       THEN /\ workers_' = [workers_ EXCEPT ![w] = [pc |-> "run", task |-> Head(tasks_)]]
            /\ tasks_' = QueueAfterPop
            /\ activeTasks_' = ActiveAfterDequeue
            /\ UNCHANGED condition_
       ELSE /\ workers_' = [workers_ EXCEPT ![w].pc = "lock"]
            /\ UNCHANGED <<tasks_, activeTasks_, condition_>>
    /\ UNCHANGED <<requested, hardware, stop_, allTasksComplete_, taskThrows,
                   execCount, future, nextTask, submitting, wapc, waQueued,
                   dpc, djoin>>
    /\ UNCHANGED outsidePool

\* A condition variable may wake a waiter without a notification.
Worker_SpuriousWake(w) ==
    /\ w \in condition_
    /\ condition_' = condition_ \ {w}
    /\ UNCHANGED <<requested, hardware, workers_, tasks_, stop_,
                   activeTasks_, allTasksComplete_, taskThrows, execCount,
                   future, nextTask, submitting, wapc, waQueued, dpc, djoin>>
    /\ UNCHANGED outsidePool

\* Variant: the body is queued bare, so its exception leaves workerThread.
TaskEscapes_Throwing(t) == taskThrows[t]

\* thread_pool.h:56-60,70: the queued closure invokes a packaged_task, which
\* stores an exception of the body in the shared state: nothing escapes.
TaskEscapes(t) == FALSE

\* The state of the future once the packaged task has run.
FutureAfterRun(t) == IF taskThrows[t] THEN "exception" ELSE "value"

\* workerThread, thread_pool.cpp:82-83: run the task outside the lock.
Worker_Run(w) ==
    /\ w \in WorkerIds
    /\ workers_[w].pc = "run"
    /\ LET t == workers_[w].task IN
       /\ execCount' = [execCount EXCEPT ![t] = @ + 1]
       /\ future' = [future EXCEPT ![t] = FutureAfterRun(t)]
       /\ workers_' = [workers_ EXCEPT ![w].pc =
                          IF TaskEscapes(t) THEN "terminated" ELSE "finish"]
    /\ UNCHANGED <<requested, hardware, tasks_, stop_, activeTasks_,
                   condition_, allTasksComplete_, taskThrows, nextTask,
                   submitting, wapc, waQueued, dpc, djoin>>
    /\ UNCHANGED outsidePool

\* thread_pool.cpp:89: when the finishing worker notifies allTasksComplete_.
NotifyAllComplete(q, a) == q = <<>> /\ a = 0

\* workerThread, thread_pool.cpp:86-92: under the lock, --activeTasks_ and
\* notify the waitAll waiters when nothing is queued or active.
Worker_Finish(w) ==
    /\ w \in WorkerIds
    /\ workers_[w].pc = "finish"
    /\ activeTasks_' = activeTasks_ - 1
    /\ allTasksComplete_' = IF NotifyAllComplete(tasks_, activeTasks_ - 1)
                            THEN FALSE ELSE allTasksComplete_
    /\ workers_' = [workers_ EXCEPT ![w] = [pc |-> "lock", task |-> NoTask]]
    /\ UNCHANGED <<requested, hardware, tasks_, stop_, condition_,
                   taskThrows, execCount, future, nextTask, submitting, wapc,
                   waQueued, dpc, djoin>>
    /\ UNCHANGED outsidePool

\* Variant: waitAll looks at the queue only.
WaitAllPred_QueueOnly == tasks_ = <<>>

\* thread_pool.cpp:48: the predicate waitAll waits for.
WaitAllPred == tasks_ = <<>> /\ activeTasks_ = 0

\* waitAll is invoked (thread_pool.cpp:45); the caller goes for the lock.
WaitAll_Call ==
    /\ wapc \in {"idle", "returned"}
    /\ dpc # "done"
    /\ wapc' = "lock"
    /\ waQueued' = Accepted
    /\ UNCHANGED <<requested, hardware, workers_, tasks_, stop_,
                   activeTasks_, condition_, allTasksComplete_, taskThrows,
                   execCount, future, nextTask, submitting, dpc, djoin>>
    /\ UNCHANGED outsidePool

\* waitAll, thread_pool.cpp:46-49: with the lock held evaluate the predicate;
\* return, or sleep in allTasksComplete_ until woken.
WaitAll_Check ==
    /\ wapc = "lock" \/ (wapc = "waiting" /\ ~allTasksComplete_)
    /\ IF WaitAllPred
       THEN /\ wapc' = "returned"
            /\ UNCHANGED allTasksComplete_
       ELSE /\ wapc' = "waiting"
            /\ allTasksComplete_' = TRUE
    /\ UNCHANGED <<requested, hardware, workers_, tasks_, stop_,
                   activeTasks_, condition_, taskThrows, execCount, future,
                   nextTask, submitting, waQueued, dpc, djoin>>
    /\ UNCHANGED outsidePool

\* A condition variable may wake the waitAll caller without a notification.
WaitAll_SpuriousWake ==
    /\ wapc = "waiting"
    /\ allTasksComplete_
    /\ allTasksComplete_' = FALSE
    /\ UNCHANGED <<requested, hardware, workers_, tasks_, stop_,
                   activeTasks_, condition_, taskThrows, execCount, future,
                   nextTask, submitting, wapc, waQueued, dpc, djoin>>
    /\ UNCHANGED outsidePool

\* ~ThreadPool, thread_pool.cpp:29-32: set the stop flag under the lock.
Destructor_SetStop ==
    /\ dpc = "alive"
    /\ stop_' = TRUE
    /\ dpc' = "notify"
    /\ UNCHANGED <<requested, hardware, workers_, tasks_, activeTasks_,
                   condition_, allTasksComplete_, taskThrows, execCount,
                   future, nextTask, submitting, wapc, waQueued, djoin>>
    /\ UNCHANGED outsidePool

\* ~ThreadPool, thread_pool.cpp:35: condition_.notify_all().
Destructor_NotifyAll ==
    /\ dpc = "notify"
    /\ condition_' = {}
    /\ dpc' = "join"
    /\ UNCHANGED <<requested, hardware, workers_, tasks_, stop_,
                   activeTasks_, allTasksComplete_, taskThrows, execCount,
                   future, nextTask, submitting, wapc, waQueued, djoin>>
    /\ UNCHANGED outsidePool

\* thread_pool.cpp:40: join returns once the worker thread has terminated.
JoinReturns(w) == workers_[w].pc = "exited"

\* ~ThreadPool, thread_pool.cpp:38-42: join the workers one after another.
Destructor_Join ==
    /\ dpc = "join"
    /\ IF djoin > Len(workers_)
       THEN /\ dpc' = "done"
            /\ UNCHANGED djoin
       ELSE /\ JoinReturns(djoin)
            /\ djoin' = djoin + 1
            /\ UNCHANGED dpc
    /\ UNCHANGED <<requested, hardware, workers_, tasks_, stop_,
                   activeTasks_, condition_, allTasksComplete_, taskThrows,
                   execCount, future, nextTask, submitting, wapc, waQueued>>
    /\ UNCHANGED outsidePool

PoolNext ==
    \/ \E thr \in BOOLEAN : Submit_Enqueue(thr)
    \/ \E t \in Tasks : Submit_Notify(t)
    \/ \E w \in WorkerIds : Worker_Check(w)
    \/ \E w \in WorkerIds : Worker_SpuriousWake(w)
    \/ \E w \in WorkerIds : Worker_Run(w)
    \/ \E w \in WorkerIds : Worker_Finish(w)
    \/ WaitAll_Call
    \/ WaitAll_Check
    \/ WaitAll_SpuriousWake
    \/ Destructor_SetStop
    \/ Destructor_NotifyAll
    \/ Destructor_Join

(***************************************************************************)
(* Properties of the ThreadPool                                            *)
(***************************************************************************)

\* The workers that hold a dequeued task whose bookkeeping is not finished.
Busy == {w \in WorkerIds : workers_[w].pc \in {"run", "finish"}}

\* A task is completed: accepted, not queued, and held by no worker.
Completed(t) ==
    /\ t \in Accepted
    /\ \A i \in 1..Len(tasks_) : tasks_[i] # t
    /\ \A w \in Busy : workers_[w].task # t

\* C1: no task body ever runs twice, a task that was never accepted never
\* runs, and once a waitAll has returned, every task that was enqueued when it
\* was invoked (so every task whose submit call had returned by then) has run
\* exactly once.
C1_ExactlyOnce ==
    /\ \A t \in Tasks : execCount[t] <= 1
    /\ \A t \in Tasks \ Accepted : execCount[t] = 0
    /\ wapc = "returned" => \A t \in waQueued : execCount[t] = 1

C1_Witness ==
    /\ wapc = "returned"
    /\ waQueued = Tasks
    /\ submitting = {}
    /\ Len(workers_) = 2
    /\ \A t \in Tasks : execCount[t] = 1

\* C2: a dequeued, unfinished task is always counted active; the step in which
\* waitAll returns is taken with an empty queue and an active count of 0; and
\* after the return no task that was enqueued before the call (so no task
\* whose submit had returned before it) is queued or executing.
C2_WaitAllCovers ==
    /\ [](activeTasks_ = Cardinality(Busy))
    /\ [](wapc = "returned" => \A t \in waQueued : Completed(t))
    /\ [][(wapc # "returned" /\ wapc' = "returned") =>
            (tasks_ = <<>> /\ activeTasks_ = 0 /\ Busy = {})]_vars

C2_Witness ==
    /\ wapc = "returned"
    /\ waQueued # {}
    /\ \E t \in Accepted \ waQueued : ~Completed(t)

\* C3: a worker leaves its loop only in a step taken with the stop flag set and
\* the queue empty; and when the destructor has returned every worker has
\* terminated and every task a submit call accepted (each was enqueued before
\* the stop flag was set) has run to completion, exactly once.
C3_ShutdownAbandonsNothing ==
    /\ [](dpc = "done" =>
            /\ \A w \in WorkerIds : workers_[w].pc = "exited"
            /\ \A t \in Accepted : Completed(t) /\ execCount[t] = 1
            /\ \A t \in Accepted : future[t] \in {"value", "exception"})
    /\ [][\A w \in WorkerIds :
            (workers_[w].pc # "exited" /\ workers_'[w].pc = "exited") =>
                (stop_ /\ tasks_ = <<>>)]_vars

C3_Witness ==
    /\ dpc = "done"
    /\ Accepted = Tasks
    /\ Len(workers_) = 2

\* C4: a submit call made with the stop flag set ends with the PoolClosed error
\* and leaves the queue and the active count as they were; a rejected task is
\* never queued, never held by a worker and never run.
C4_SubmitAfterStopFails ==
    /\ [](\A t \in Tasks : future[t] = "PoolClosed" =>
            /\ execCount[t] = 0
            /\ \A i \in 1..Len(tasks_) : tasks_[i] # t
            /\ \A w \in WorkerIds : workers_[w].task # t)
    /\ [][(stop_ /\ nextTask' # nextTask) =>
            /\ future'[nextTask] = "PoolClosed"
            /\ tasks_' = tasks_
            /\ activeTasks_' = activeTasks_]_vars

C4_Witness ==
    /\ \E t \in Tasks : future[t] = "PoolClosed"
    /\ \E t \in Tasks : future[t] = "value"
    /\ dpc = "done"

\* C5: a task resolves its handle to the failure exactly when its body threw;
\* no worker thread dies; the active count is the number of dequeued
\* unfinished tasks whichever way they ended; a queued task always has a worker
\* awake or a notification on its way; and the waitAll caller never sleeps
\* while the queue is empty and no task is active.
C5_FailureIsContained ==
    /\ \A t \in Tasks : future[t] = "exception" <=> (taskThrows[t] /\ execCount[t] >= 1)
    /\ \A t \in Tasks : future[t] = "value" <=> (~taskThrows[t] /\ execCount[t] >= 1)
    /\ \A w \in WorkerIds : workers_[w].pc # "terminated"
    /\ activeTasks_ = Cardinality(Busy)
    /\ tasks_ # <<>> =>
          \/ submitting # {}
          \/ \E w \in WorkerIds :
                w \notin condition_ /\ workers_[w].pc \notin {"exited", "terminated"}
    /\ (wapc = "waiting" /\ allTasksComplete_) => ~(tasks_ = <<>> /\ activeTasks_ = 0)

C5_Witness ==
    /\ Len(workers_) = 1
    /\ wapc = "returned"
    /\ waQueued = Tasks
    /\ future[1] = "exception"
    /\ future[2] = "value"

\* C6: a caller blocked in waitAll is held back only by tasks that were queued
\* when it made the call: once they are all completed, the condition it is
\* blocked on holds, whatever has been submitted since.
C6_WaitsOnlyForQueuedAtCall ==
    (wapc = "waiting" /\ \A t \in waQueued : Completed(t)) =>
        (tasks_ = <<>> /\ activeTasks_ = 0)


(***************************************************************************)
(* StreamDecoder (the live source) and StreamAnalyzer                      *)
(***************************************************************************)

\* stream_analyzer.cpp:127: const size_t maxWindowSize = 300.
maxWindowSize == 300
\* stream_analyzer.cpp:183: the anomaly log keeps at most 100 entries.
maxAnomalies == 100
\* stream_analyzer.cpp:170: expectedDiff = 1.0 / 30.0.
NominalFps == 30
\* stream_analyzer.cpp:221: frame.qp > 40.
QpThreshold == 40
\* Timestamps are counted in ticks; this many ticks make a second
\* (stream_decoder.cpp:201, pts * av_q2d(time_base)).
TicksPerSecond == 90

Controllers == {1, 2}

\* An empty std::optional<FrameInfo>.
NoFrame == [timestamp |-> -1, size |-> 0, qp |-> 0]

\* The frames a live source may deliver next in "free" mode: regular or late,
\* small or large, from a codec with QP 0 or 128 (stream_decoder.cpp:341-353).
FreeFrames ==
    {[timestamp |-> srcTs + g, size |-> sz, qp |-> q] :
        g \in {3, 7}, sz \in {1, 4}, q \in {0, 128}}

\* The i-th frame of the sustained source: every frame is late and has a high
\* QP, every second frame is four times the size of the one before.
SustainedFrame(i) ==
    [timestamp |-> 7 * i, size |-> IF i % 2 = 0 THEN 4 ELSE 1, qp |-> 128]

\* The frames a live source may deliver next in "detect" mode: spacing at,
\* below and above twice the nominal interval, sizes that include exactly
\* three times the smallest.
DetectFrames ==
    {[timestamp |-> srcTs + g, size |-> sz, qp |-> q] :
        g \in {3, 6, 7}, sz \in {1, 3, 4}, q \in {0, 128}}

\* The frame before which the scenario's gap lies.
GapFrame == 11

\* The i-th frame of the scenario: 1/30 s (3 ticks) between frames, except
\* 0.5 s (45 ticks) between frame 10 and frame 11.
ScenarioFrame(i) ==
    [timestamp |-> IF i < GapFrame THEN 3 * i ELSE 3 * i + 42, size |-> 1, qp |-> 0]

\* How many frames the source holds.
SourceLength ==
    CASE srcMode = "sustained" -> maxWindowSize + ExtraFrames
      [] srcMode = "scenario" -> ScenarioLength
      [] OTHER -> MaxFrames

\* The frames a live source with a timestamp discontinuity may deliver next
\* in "unordered" mode: the timestamp steps forward or back, or stays.
UnorderedFrames ==
    {[timestamp |-> srcTs + g, size |-> sz, qp |-> 0] :
        g \in {-3, 0, 3}, sz \in {1, 4}}

NextFrames ==
    CASE srcMode = "sustained" -> {SustainedFrame(srcPos + 1)}
      [] srcMode = "unordered" -> UnorderedFrames
      [] srcMode = "detect" -> DetectFrames
      [] srcMode = "scenario" -> {ScenarioFrame(srcPos + 1)}
      [] OTHER -> FreeFrames

\* A library call that readNextFrame does not reach.
NotCalled == "-"

RecvCodes == {"frame", "EAGAIN", "EOF", "error"}
ReadCodes == {"video", "other", "EOF", "ETIMEDOUT", "error"}
SendCodes == {"ok", "EAGAIN", "error"}

\* Variant: readNextFrame does not test streamActive on entry.
StreamRead_WhenInactive(r1, rd, sn, r2) ==
    IF r1 = "frame" THEN [got |-> TRUE, active |-> TRUE]
    ELSE IF r1 # "EAGAIN" THEN [got |-> FALSE, active |-> FALSE]
    ELSE IF rd \in {"EOF", "ETIMEDOUT"} THEN [got |-> FALSE, active |-> FALSE]
    ELSE IF rd = "error" THEN [got |-> FALSE, active |-> streamActive]
    ELSE IF rd = "other" THEN [got |-> FALSE, active |-> streamActive]
    ELSE IF sn = "error" THEN [got |-> FALSE, active |-> FALSE]
    ELSE IF r2 = "frame" THEN [got |-> TRUE, active |-> TRUE]
    ELSE [got |-> FALSE, active |-> streamActive]

\* StreamDecoder::readNextFrame, stream_decoder.cpp:177-283, as a function of
\* what avcodec_receive_frame (r1), av_read_frame (rd), avcodec_send_packet
\* (sn) and the second avcodec_receive_frame (r2) return: whether a frame is
\* returned, and streamActive afterwards.
StreamRead(r1, rd, sn, r2) ==
    IF ~streamActive THEN [got |-> FALSE, active |-> FALSE]
    ELSE IF r1 = "frame" THEN [got |-> TRUE, active |-> TRUE]
    ELSE IF r1 # "EAGAIN" THEN [got |-> FALSE, active |-> FALSE]
    ELSE IF rd \in {"EOF", "ETIMEDOUT"} THEN [got |-> FALSE, active |-> FALSE]
    ELSE IF rd = "error" THEN [got |-> FALSE, active |-> TRUE]
    ELSE IF rd = "other" THEN [got |-> FALSE, active |-> TRUE]
    ELSE IF sn = "error" THEN [got |-> FALSE, active |-> FALSE]
    ELSE IF r2 = "frame" THEN [got |-> TRUE, active |-> TRUE]
    ELSE [got |-> FALSE, active |-> TRUE]

\* The return codes along the paths readNextFrame can take: a later call is
\* made only when the earlier ones sent it there.
ReadPaths ==
    {<<r1, NotCalled, NotCalled, NotCalled>> : r1 \in RecvCodes \ {"EAGAIN"}}
    \cup {<<"EAGAIN", rd, NotCalled, NotCalled>> : rd \in ReadCodes \ {"video"}}
    \cup {<<"EAGAIN", "video", "error", NotCalled>>}
    \cup {<<"EAGAIN", "video", sn, r2>> : sn \in SendCodes \ {"error"}, r2 \in RecvCodes}

\* Variant: the source always reports itself active.
isStreamActive_Always == TRUE

\* StreamDecoder::isStreamActive, stream_decoder.cpp:285-287.
isStreamActive == streamActive

\* The state after StreamAnalyzer's construction and configuration, for the
\* given threads that call start() and stop(), source mode and sets of
\* configurations.
AnalyzerInitWith(cs, mode, FrameCb, AnomalyCb, Export) ==
    /\ callers = cs
    /\ lastCall = "none"
    /\ cpc = [c \in Controllers |-> "idle"]
    /\ running_ = FALSE
    /\ joinable = FALSE
    /\ liveLoops = 0
    /\ terminated = FALSE
    /\ lpc = "none"
    /\ frame = NoFrame
    /\ stage = 1
    /\ previousFrame_ = NoFrame
    /\ frameWindow_ = <<>>
    /\ anomalies_ = <<>>
    /\ dataMutex_ = "free"
    /\ frameCallback_ \in FrameCb
    /\ anomalyCallback_ \in AnomalyCb
    /\ exportEnabled_ \in Export
    /\ sinkOpen = exportEnabled_
    /\ exportedLines = 0
    /\ frameCbCalls = 0
    /\ anomalyCbCalls = 0
    /\ stopReturned = FALSE
    /\ streamActive = TRUE
    /\ srcMode = mode
    /\ srcPos = 0
    /\ srcTs = 0

\* The same with one thread that calls start() and stop().
AnalyzerInitFor(mode, FrameCb, AnomalyCb, Export) ==
    AnalyzerInitWith({1}, mode, FrameCb, AnomalyCb, Export)

AnalyzerInit == AnalyzerInitFor("free", BOOLEAN, BOOLEAN, BOOLEAN)

SustainedInit == AnalyzerInitFor("sustained", {TRUE}, {TRUE}, {TRUE})

StartPcs == {"start_set", "start_spawn"}
StopPcs == {"stop_set", "stop_decoder", "stop_join", "stop_close"}

\* Variant: start() does not look at running_.
StartIsNoOp_Never == FALSE

\* stream_analyzer.cpp:18-20: start() returns at once when running_ is set.
StartIsNoOp == running_

\* stream_analyzer.cpp:27-29: stop() returns at once when running_ is unset.
StopIsNoOp == ~running_

\* start(), stream_analyzer.cpp:18-20.
Start_Check(c) ==
    /\ ~terminated
    /\ c \in callers
    /\ cpc[c] = "idle"
    /\ cpc' = [cpc EXCEPT ![c] = IF StartIsNoOp THEN "idle" ELSE "start_set"]
    /\ lastCall' = IF StartIsNoOp THEN "start_noop" ELSE "start"
    /\ UNCHANGED <<callers, running_, joinable, liveLoops, terminated,
                   stopReturned, loopVars, dataVars, outVars, srcVars>>
    /\ UNCHANGED outsideAnalyzer

\* start(), stream_analyzer.cpp:22.
Start_Set(c) ==
    /\ ~terminated
    /\ cpc[c] = "start_set"
    /\ running_' = TRUE
    /\ stopReturned' = FALSE
    /\ cpc' = [cpc EXCEPT ![c] = "start_spawn"]
    /\ UNCHANGED <<callVars, joinable, liveLoops, terminated,
                   loopVars, dataVars, outVars, srcVars>>
    /\ UNCHANGED outsideAnalyzer

\* start(), stream_analyzer.cpp:23: the new thread starts in analysisLoop;
\* move-assigning it to a joinable analysisThread_ calls std::terminate.
Start_Spawn(c) ==
    /\ ~terminated
    /\ cpc[c] = "start_spawn"
    /\ liveLoops' = liveLoops + 1
    /\ IF joinable
       THEN /\ terminated' = TRUE
            /\ UNCHANGED <<joinable, lpc>>
       ELSE /\ joinable' = TRUE
            /\ lpc' = "top"
            /\ UNCHANGED terminated
    /\ cpc' = [cpc EXCEPT ![c] = "idle"]
    /\ UNCHANGED <<callVars, running_, stopReturned, frame, stage,
                   previousFrame_, dataVars, outVars, srcVars>>
    /\ UNCHANGED outsideAnalyzer

\* stop(), stream_analyzer.cpp:27-29.
Stop_Check(c) ==
    /\ ~terminated
    /\ c \in callers
    /\ cpc[c] = "idle"
    /\ cpc' = [cpc EXCEPT ![c] = IF StopIsNoOp THEN "idle" ELSE "stop_set"]
    /\ lastCall' = IF StopIsNoOp THEN "stop_noop" ELSE "stop"
    /\ UNCHANGED <<callers, running_, joinable, liveLoops, terminated,
                   stopReturned, loopVars, dataVars, outVars, srcVars>>
    /\ UNCHANGED outsideAnalyzer

\* stop(), stream_analyzer.cpp:31.
Stop_Set(c) ==
    /\ ~terminated
    /\ cpc[c] = "stop_set"
    /\ running_' = FALSE
    /\ cpc' = [cpc EXCEPT ![c] = "stop_decoder"]
    /\ UNCHANGED <<callVars, joinable, liveLoops, terminated, stopReturned,
                   loopVars, dataVars, outVars, srcVars>>
    /\ UNCHANGED outsideAnalyzer

\* stop(), stream_analyzer.cpp:32: StreamDecoder::stop, stream_decoder.cpp:308-310.
Stop_Decoder(c) ==
    /\ ~terminated
    /\ cpc[c] = "stop_decoder"
    /\ streamActive' = FALSE
    /\ cpc' = [cpc EXCEPT ![c] = "stop_join"]
    /\ UNCHANGED <<callVars, running_, joinable, liveLoops, terminated,
                   stopReturned, loopVars, dataVars, outVars, srcMode, srcPos,
                   srcTs>>
    /\ UNCHANGED outsideAnalyzer

\* Variant: stop() does not wait for the thread function to return.
LoopHasReturned_Always == TRUE

\* stream_analyzer.cpp:35: join() returns once analysisLoop has returned.
LoopHasReturned == lpc = "exited"

\* stop(), stream_analyzer.cpp:34-36.
Stop_Join(c) ==
    /\ ~terminated
    /\ cpc[c] = "stop_join"
    /\ IF joinable
       THEN /\ LoopHasReturned
            /\ joinable' = FALSE
            /\ liveLoops' = IF lpc = "exited" THEN liveLoops - 1 ELSE liveLoops
            /\ lpc' = IF lpc = "exited" THEN "none" ELSE lpc
       ELSE UNCHANGED <<joinable, liveLoops, lpc>>
    /\ cpc' = [cpc EXCEPT ![c] = "stop_close"]
    /\ UNCHANGED <<callVars, running_, terminated, stopReturned, frame, stage,
                   previousFrame_, dataVars, outVars, srcVars>>
    /\ UNCHANGED outsideAnalyzer

\* stop(), stream_analyzer.cpp:38-41: close the export sink and return.
Stop_Close(c) ==
    /\ ~terminated
    /\ cpc[c] = "stop_close"
    /\ sinkOpen' = FALSE
    /\ stopReturned' = TRUE
    /\ cpc' = [cpc EXCEPT ![c] = "idle"]
    /\ UNCHANGED <<callVars, running_, joinable, liveLoops, terminated,
                   loopVars, dataVars, frameCallback_, anomalyCallback_,
                   exportEnabled_, exportedLines, frameCbCalls, anomalyCbCalls,
                   srcVars>>
    /\ UNCHANGED outsideAnalyzer

\* analysisLoop, stream_analyzer.cpp:129: the loop condition. running_ and
\* streamActive only ever change from true to false while a loop runs, so the
\* two loads amount to one.
Loop_Top ==
    /\ ~terminated
    /\ lpc = "top"
    /\ lpc' = IF running_ /\ isStreamActive THEN "read" ELSE "exited"
    /\ UNCHANGED <<ctlVars, frame, stage, previousFrame_, dataVars, outVars,
                   srcVars>>
    /\ UNCHANGED outsideAnalyzer

\* analysisLoop, stream_analyzer.cpp:130-135: pull a frame from the decoder,
\* the library calls returning the codes of the given path.
Loop_ReadVia(path) ==
    /\ ~terminated
    /\ lpc = "read"
    /\ LET out == StreamRead(path[1], path[2], path[3], path[4]) IN
          /\ out.got => srcPos < SourceLength
          /\ \E f \in IF out.got THEN NextFrames ELSE {NoFrame} :
                /\ frame' = f
                /\ srcPos' = IF out.got THEN srcPos + 1 ELSE srcPos
                /\ srcTs' = IF out.got THEN f.timestamp ELSE srcTs
          /\ streamActive' = out.active
          /\ lpc' = IF out.got THEN "w_lock" ELSE "sleep"
    /\ UNCHANGED <<ctlVars, stage, previousFrame_, dataVars, outVars, srcMode>>
    /\ UNCHANGED outsideAnalyzer

Loop_Read == \E path \in ReadPaths : Loop_ReadVia(path)

\* analysisLoop, stream_analyzer.cpp:133-134: sleep 10 ms and try again.
Loop_Sleep ==
    /\ ~terminated
    /\ lpc = "sleep"
    /\ lpc' = "top"
    /\ UNCHANGED <<ctlVars, frame, stage, previousFrame_, dataVars, outVars,
                   srcVars>>
    /\ UNCHANGED outsideAnalyzer

\* Variant: the frame is pushed without waiting for dataMutex_.
Loop_WindowPush_Unlocked ==
    /\ ~terminated
    /\ lpc = "w_lock"
    /\ dataMutex_' = "loop"
    /\ frameWindow_' = Append(frameWindow_, frame)
    /\ lpc' = "w_evict"
    /\ UNCHANGED <<ctlVars, frame, stage, previousFrame_, anomalies_, outVars,
                   srcVars>>
    /\ UNCHANGED outsideAnalyzer

\* analysisLoop, stream_analyzer.cpp:139-140: lock dataMutex_ and push_back.
Loop_WindowPush ==
    /\ ~terminated
    /\ lpc = "w_lock"
    /\ dataMutex_ = "free"
    /\ dataMutex_' = "loop"
    /\ frameWindow_' = Append(frameWindow_, frame)
    /\ lpc' = "w_evict"
    /\ UNCHANGED <<ctlVars, frame, stage, previousFrame_, anomalies_, outVars,
                   srcVars>>
    /\ UNCHANGED outsideAnalyzer

\* Variant: the window is trimmed one frame too late.
WindowOverflows_Late(len) == len > maxWindowSize + 1

\* stream_analyzer.cpp:143: frameWindow_.size() > maxWindowSize.
WindowOverflows(len) == len > maxWindowSize

\* analysisLoop, stream_analyzer.cpp:143-146: pop_front when over the limit,
\* then unlock.
Loop_WindowEvict ==
    /\ ~terminated
    /\ lpc = "w_evict"
    /\ frameWindow_' = IF WindowOverflows(Len(frameWindow_))
                       THEN Tail(frameWindow_) ELSE frameWindow_
    /\ dataMutex_' = "free"
    /\ lpc' = "a_check"
    /\ stage' = 1
    /\ UNCHANGED <<ctlVars, frame, previousFrame_, anomalies_, outVars,
                   srcVars>>
    /\ UNCHANGED outsideAnalyzer

AnomalyTypes == <<"FRAME_DROP", "BITRATE_SPIKE", "QUALITY_DROP">>

\* Variant: a gap of exactly twice the nominal interval counts as a drop.
FrameDropDetected_AtTwice(f, prev) ==
    /\ prev # NoFrame
    /\ (f.timestamp - prev.timestamp) * NominalFps >= 2 * TicksPerSecond

\* detectAnomalies, stream_analyzer.cpp:168-172: previousFrame_ has a value and
\* timeDiff > expectedDiff * 2.0, with expectedDiff = 1 / NominalFps seconds.
FrameDropDetected(f, prev) ==
    /\ prev # NoFrame
    /\ (f.timestamp - prev.timestamp) * NominalFps > 2 * TicksPerSecond

\* Variant: a frame of exactly three times the previous size counts as a spike.
BitrateSpikeDetected_AtThree(f, prev) ==
    /\ prev # NoFrame
    /\ f.size * 8 >= (prev.size * 8) * 3

\* detectAnomalies, stream_analyzer.cpp:195-199: previousFrame_ has a value and
\* currentBitrate > previousBitrate * 3.0.
BitrateSpikeDetected(f, prev) ==
    /\ prev # NoFrame
    /\ f.size * 8 > (prev.size * 8) * 3

\* Variant: the quality check is made only when a previous frame exists.
QualityDropDetected_NeedsPrevious(f, prev) == prev # NoFrame /\ f.qp > QpThreshold

\* detectAnomalies, stream_analyzer.cpp:221: frame.qp > 40.
QualityDropDetected(f, prev) == f.qp > QpThreshold

\* detectAnomalies, stream_analyzer.cpp:168-172, 195-199 and 221: the
\* condition of the k-th check for frame f after the previous frame prev.
AnomalyDetected(k, f, prev) ==
    CASE k = 1 -> FrameDropDetected(f, prev)
      [] k = 2 -> BitrateSpikeDetected(f, prev)
      [] k = 3 -> QualityDropDetected(f, prev)

\* detectAnomalies, stream_analyzer.cpp:173-176, 200-203, 222-225.
MakeAnomaly(k, f) == [type |-> AnomalyTypes[k], timestamp |-> f.timestamp]

\* Variant: detectAnomalies returns after its first check.
AfterCheck_First(k) == "f_cb"

\* Where the loop goes after the k-th check of detectAnomalies.
AfterCheck(k) == IF k < 3 THEN "a_check" ELSE "f_cb"

\* analysisLoop, stream_analyzer.cpp:149; detectAnomalies evaluates the
\* condition of its next check.
Loop_AnomalyCheck ==
    /\ ~terminated
    /\ lpc = "a_check"
    /\ IF AnomalyDetected(stage, frame, previousFrame_)
       THEN /\ lpc' = "a_lock"
            /\ UNCHANGED stage
       ELSE /\ lpc' = AfterCheck(stage)
            /\ stage' = IF stage < 3 THEN stage + 1 ELSE 1
    /\ UNCHANGED <<ctlVars, frame, previousFrame_, dataVars, outVars, srcVars>>
    /\ UNCHANGED outsideAnalyzer

\* detectAnomalies, stream_analyzer.cpp:179-180 (206-207, 228-229): lock
\* dataMutex_ and push_back the anomaly.
Loop_AnomalyPush ==
    /\ ~terminated
    /\ lpc = "a_lock"
    /\ dataMutex_ = "free"
    /\ dataMutex_' = "loop"
    /\ anomalies_' = Append(anomalies_, MakeAnomaly(stage, frame))
    /\ lpc' = "a_cap"
    /\ UNCHANGED <<ctlVars, frame, stage, previousFrame_, frameWindow_,
                   outVars, srcVars>>
    /\ UNCHANGED outsideAnalyzer

\* stream_analyzer.cpp:183: anomalies_.size() > 100.
LogOverflows(len) == len > maxAnomalies

\* Variant: the lock taken for the log is still held when the callback runs.
Loop_AnomalyCap_Holding ==
    /\ ~terminated
    /\ lpc = "a_cap"
    /\ anomalies_' = IF LogOverflows(Len(anomalies_))
                     THEN Tail(anomalies_) ELSE anomalies_
    /\ lpc' = "a_cb"
    /\ UNCHANGED <<ctlVars, frame, stage, previousFrame_, frameWindow_,
                   dataMutex_, outVars, srcVars>>
    /\ UNCHANGED outsideAnalyzer

\* detectAnomalies, stream_analyzer.cpp:183-186 (209-212, 231-234): pop_front
\* when over the limit, then unlock.
Loop_AnomalyCap ==
    /\ ~terminated
    /\ lpc = "a_cap"
    /\ anomalies_' = IF LogOverflows(Len(anomalies_))
                     THEN Tail(anomalies_) ELSE anomalies_
    /\ dataMutex_' = "free"
    /\ lpc' = "a_cb"
    /\ UNCHANGED <<ctlVars, frame, stage, previousFrame_, frameWindow_,
                   outVars, srcVars>>
    /\ UNCHANGED outsideAnalyzer

\* detectAnomalies, stream_analyzer.cpp:188-190 (214-216, 236-238).
Loop_AnomalyCallback ==
    /\ ~terminated
    /\ lpc = "a_cb"
    /\ anomalyCbCalls' = IF anomalyCallback_ THEN anomalyCbCalls + 1
                         ELSE anomalyCbCalls
    /\ lpc' = AfterCheck(stage)
    /\ stage' = IF stage < 3 THEN stage + 1 ELSE 1
    /\ UNCHANGED <<ctlVars, frame, previousFrame_, dataVars, frameCallback_,
                   anomalyCallback_, exportEnabled_, sinkOpen, exportedLines,
                   frameCbCalls, srcVars>>
    /\ UNCHANGED outsideAnalyzer

\* analysisLoop, stream_analyzer.cpp:152-154.
Loop_FrameCallback ==
    /\ ~terminated
    /\ lpc = "f_cb"
    /\ frameCbCalls' = IF frameCallback_ THEN frameCbCalls + 1 ELSE frameCbCalls
    /\ lpc' = "export"
    /\ UNCHANGED <<ctlVars, frame, stage, previousFrame_, dataVars,
                   frameCallback_, anomalyCallback_, exportEnabled_, sinkOpen,
                   exportedLines, anomalyCbCalls, srcVars>>
    /\ UNCHANGED outsideAnalyzer

\* analysisLoop, stream_analyzer.cpp:157-160.
Loop_Export ==
    /\ ~terminated
    /\ lpc = "export"
    /\ exportedLines' = IF exportEnabled_ /\ sinkOpen THEN exportedLines + 1
                        ELSE exportedLines
    /\ lpc' = "prev"
    /\ UNCHANGED <<ctlVars, frame, stage, previousFrame_, dataVars,
                   frameCallback_, anomalyCallback_, exportEnabled_, sinkOpen,
                   frameCbCalls, anomalyCbCalls, srcVars>>
    /\ UNCHANGED outsideAnalyzer

\* analysisLoop, stream_analyzer.cpp:162-163.
Loop_SetPrevious ==
    /\ ~terminated
    /\ lpc = "prev"
    /\ previousFrame_' = frame
    /\ frame' = NoFrame
    /\ lpc' = "top"
    /\ UNCHANGED <<ctlVars, stage, dataVars, outVars, srcVars>>
    /\ UNCHANGED outsideAnalyzer

\* A step of the background thread.
LoopStep ==
    \/ Loop_Top
    \/ Loop_Read
    \/ Loop_Sleep
    \/ Loop_WindowPush
    \/ Loop_WindowEvict
    \/ Loop_AnomalyCheck
    \/ Loop_AnomalyPush
    \/ Loop_AnomalyCap
    \/ Loop_AnomalyCallback
    \/ Loop_FrameCallback
    \/ Loop_Export
    \/ Loop_SetPrevious

\* A step of a thread that is inside stop().
StopStep ==
    \/ \E c \in Controllers : Stop_Set(c)
    \/ \E c \in Controllers : Stop_Decoder(c)
    \/ \E c \in Controllers : Stop_Join(c)
    \/ \E c \in Controllers : Stop_Close(c)

AnalyzerNext ==
    \/ \E c \in Controllers : Start_Check(c)
    \/ \E c \in Controllers : Start_Set(c)
    \/ \E c \in Controllers : Start_Spawn(c)
    \/ \E c \in Controllers : Stop_Check(c)
    \/ StopStep
    \/ LoopStep

(***************************************************************************)
(* StreamAnalyzer's read APIs, called from another thread                  *)
(***************************************************************************)

\* The windowSize arguments tried, in ticks.
ReaderWindows == {2, 5}

ReaderKinds == {"bitrate", "frames", "anomalies"}

\* No statistics were returned yet.
NoStats == [kind |-> "none", count |-> 0, averageBitrate |-> 0]

ReaderInit ==
    /\ rpc = "idle"
    /\ rkind = "none"
    /\ rwindow = 0
    /\ rcopy = <<>>
    /\ rresult = NoStats

\* getCurrentBitrateStats, stream_analyzer.cpp:52-65 (getCurrentFrameStats,
\* 90-103): the frames of win copied into windowFrames for window size w.
WindowFrames(win, w) ==
    IF win = <<>> THEN <<>>
    ELSE LET currentTime == win[Len(win)].timestamp
             startTime == currentTime - w
             Selected(f) == f.timestamp >= startTime
         IN SelectSeq(win, Selected)

RECURSIVE TotalSize(_)
\* getCurrentBitrateStats, stream_analyzer.cpp:72-75.
TotalSize(fs) == IF fs = <<>> THEN 0 ELSE Head(fs).size + TotalSize(Tail(fs))

\* getCurrentBitrateStats, stream_analyzer.cpp:46-50, 77-82: the statistics
\* for the copied frames over the given span in ticks, in bits per second
\* (rounded down), and whether the division of line 79 was made.
BitrateOver(fs, duration, divides) ==
    LET average == IF divides
                   THEN (TotalSize(fs) * 8 * TicksPerSecond) \div duration
                   ELSE 0
    IN  [kind |-> "bitrate", count |-> Len(fs), divided |-> divides,
         averageBitrate |-> average,
         maxBitrate |-> (average * 3) \div 2,
         minBitrate |-> average \div 2,
         stdDeviation |-> 0]

\* Variant: the division is made for every span but zero.
BitrateStats_AnySpan(fs) ==
    IF fs = <<>> THEN BitrateOver(fs, 0, FALSE)
    ELSE LET duration == fs[Len(fs)].timestamp - fs[1].timestamp IN
         BitrateOver(fs, duration, duration # 0)

\* getCurrentBitrateStats, stream_analyzer.cpp:46-84: the statistics for the
\* copied frames.
BitrateStats(fs) ==
    IF fs = <<>> THEN BitrateOver(fs, 0, FALSE)
    ELSE LET duration == fs[Len(fs)].timestamp - fs[1].timestamp IN
         BitrateOver(fs, duration, duration > 0)

\* getCurrentFrameStats, stream_analyzer.cpp:90-105: FrameStatistics::compute
\* over the copied frames (only the number of frames is kept).
FrameStats(fs) == [kind |-> "frames", count |-> Len(fs), averageBitrate |-> 0]

\* stream_analyzer.cpp:44 (88): std::lock_guard<std::mutex> lock(dataMutex_).
Reader_Lock ==
    /\ ~terminated
    /\ rpc = "idle"
    /\ dataMutex_ = "free"
    /\ dataMutex_' = "reader"
    /\ \E k \in ReaderKinds, w \in ReaderWindows :
          /\ rkind' = k
          /\ rwindow' = w
    /\ rpc' = "select"
    /\ UNCHANGED <<rcopy, rresult>>
    /\ UNCHANGED <<ctlVars, loopVars, frameWindow_, anomalies_, outVars, srcVars>>
    /\ UNCHANGED outsideReader

\* Who holds dataMutex_ when the reader's call has returned.
MutexAfterReturn == "free"

\* getDetectedAnomalies, stream_analyzer.cpp:108-111: a copy of the log (only
\* the number of entries is kept).
DetectedAnomalies(log) ==
    [kind |-> "anomalies", count |-> Len(log), averageBitrate |-> 0]

\* What a read API returns for the copied frames.
StatsOf(kind, fs) == IF kind = "bitrate" THEN BitrateStats(fs) ELSE FrameStats(fs)

\* stream_analyzer.cpp:52-65 (90-103): return at once when the window is
\* empty, else select the frames of the window; getDetectedAnomalies (110)
\* copies the log and returns.
Reader_Select ==
    /\ ~terminated
    /\ rpc = "select"
    /\ IF rkind = "anomalies"
       THEN /\ rresult' = DetectedAnomalies(anomalies_)
            /\ dataMutex_' = MutexAfterReturn
            /\ rpc' = "idle"
            /\ UNCHANGED rcopy
       ELSE IF frameWindow_ = <<>>
       THEN /\ rresult' = StatsOf(rkind, <<>>)
            /\ dataMutex_' = MutexAfterReturn
            /\ rpc' = "idle"
            /\ UNCHANGED rcopy
       ELSE /\ rcopy' = WindowFrames(frameWindow_, rwindow)
            /\ rpc' = "compute"
            /\ UNCHANGED <<rresult, dataMutex_>>
    /\ UNCHANGED <<rkind, rwindow>>
    /\ UNCHANGED <<ctlVars, loopVars, frameWindow_, anomalies_, outVars, srcVars>>
    /\ UNCHANGED outsideReader

\* stream_analyzer.cpp:67-85 (105-106): compute the statistics from the copy
\* and return; the lock_guard unlocks on return.
Reader_Compute ==
    /\ ~terminated
    /\ rpc = "compute"
    /\ rresult' = StatsOf(rkind, rcopy)
    /\ rcopy' = <<>>
    /\ dataMutex_' = MutexAfterReturn
    /\ rpc' = "idle"
    /\ UNCHANGED <<rkind, rwindow>>
    /\ UNCHANGED <<ctlVars, loopVars, frameWindow_, anomalies_, outVars, srcVars>>
    /\ UNCHANGED outsideReader

ReaderNext ==
    \/ Reader_Lock
    \/ Reader_Select
    \/ Reader_Compute

(***************************************************************************)
(* GOPAnalyzer                                                             *)
(***************************************************************************)

FrameTypes == {"I_FRAME", "P_FRAME", "B_FRAME", "UNKNOWN"}

\* The frame at position i of the input, of the given type and keyframe flag.
GopFrame(i, type, key) ==
    [pts |-> i, size |-> 10 * i, type |-> type, isKeyFrame |-> key]

\* All input sequences of n frames.
GopInputs(n) ==
    {[i \in 1..n |-> GopFrame(i, tk[i][1], tk[i][2])] :
        tk \in [1..n -> FrameTypes \X BOOLEAN]}

\* The sequence I P P I P B P, the keyframe flag set on the I frames only.
ScenarioBTypes ==
    <<"I_FRAME", "P_FRAME", "P_FRAME", "I_FRAME", "P_FRAME", "B_FRAME", "P_FRAME">>

ScenarioB ==
    [i \in 1..Len(ScenarioBTypes) |->
        GopFrame(i, ScenarioBTypes[i], ScenarioBTypes[i] = "I_FRAME")]

\* How many of frames[first..last] have the given type.
CountType(frames, first, last, type) ==
    Cardinality({j \in first..last : frames[j].type = type})

RECURSIVE SizeSum(_, _, _)
\* gop_analyzer.cpp:65 (100): gop.totalSize += frames[j].size.
SizeSum(frames, first, last) ==
    IF first > last THEN 0
    ELSE frames[first].size + SizeSum(frames, first + 1, last)

\* Variant: the frame count leaves out the segment's last frame.
GopFrameCount_Short(first, last) == last - first

\* gop_analyzer.cpp:43 (79): frameCount = i - gopStart, the frames from the
\* segment's first to its last.
GopFrameCount(first, last) == last - first + 1

\* gop_analyzer.cpp:39-68 (75-103): the GOPInfo for frames[first..last].
MakeGop(frames, first, last, index) ==
    [gopIndex |-> index,
     startPts |-> frames[first].pts,
     endPts |-> frames[last].pts,
     frameCount |-> GopFrameCount(first, last),
     iFrameCount |-> CountType(frames, first, last, "I_FRAME"),
     pFrameCount |-> CountType(frames, first, last, "P_FRAME"),
     bFrameCount |-> CountType(frames, first, last, "B_FRAME"),
     totalSize |-> SizeSum(frames, first, last),
     isOpenGOP |-> FALSE]

\* Variant: every I-frame starts a GOP, flagged as keyframe or not.
StartsGop_AnyIntra(f) == f.type = "I_FRAME"

\* gop_analyzer.cpp:37: a new GOP starts at an I-frame flagged as keyframe.
StartsGop(f) == f.type = "I_FRAME" /\ f.isKeyFrame

RECURSIVE GopLoop(_, _, _, _, _)
\* detectGOPBoundaries, gop_analyzer.cpp:32-104: the loop from position i
\* (positions count from 1), then the last GOP.
GopLoop(frames, i, gopStart, gopIndex, gops) ==
    IF i > Len(frames)
    THEN IF gopStart <= Len(frames)
         THEN Append(gops, MakeGop(frames, gopStart, Len(frames), gopIndex))
         ELSE gops
    ELSE IF StartsGop(frames[i])
    THEN GopLoop(frames, i + 1, i, gopIndex + 1,
                 Append(gops, MakeGop(frames, gopStart, i - 1, gopIndex)))
    ELSE GopLoop(frames, i + 1, gopStart, gopIndex, gops)

\* GOPAnalyzer::detectGOPBoundaries, gop_analyzer.cpp:29-105, appending to gops.
detectGOPBoundaries(frames, gops) ==
    IF frames = <<>> THEN gops ELSE GopLoop(frames, 2, 1, 0, gops)

\* A GOPAnalyzer on a decoder whose file holds one of the given frame
\* sequences.
GopInitFor(N) ==
    /\ \E n \in N : gopFrames \in GopInputs(n)
    /\ gops_ = <<>>
    /\ gopRuns = 0

\* Every sequence of up to MaxGopFrames frames, and the sequence of
\* scenario B.
GopInit ==
    \/ GopInitFor(0..MaxGopFrames)
    \/ (gopFrames = ScenarioB /\ gops_ = <<>> /\ gopRuns = 0)

\* GOPAnalyzer::analyze, gop_analyzer.cpp:8-27: clear gops_, collect the
\* decoder's frames, segment them.
Gop_Analyze ==
    /\ gopRuns < MaxGopRuns
    /\ gopRuns' = gopRuns + 1
    /\ gops_' = detectGOPBoundaries(gopFrames, <<>>)
    /\ UNCHANGED gopFrames
    /\ UNCHANGED outsideGop

GopNext == Gop_Analyze

(***************************************************************************)
(* VideoAnalyzer: batch analysis and duplicate detection                   *)
(***************************************************************************)

\* The sizes and the (type, QP) pairs of the frames of the files analyzed.
FileSizes == {100, 101, 200}
FileKinds == {<<"I_FRAME", 20>>, <<"P_FRAME", 20>>, <<"P_FRAME", 30>>}

\* The fields readNextFrame fills in (video_decoder.cpp:201-209); it leaves
\* isDuplicate and duplicateGroupId uninitialized.
DecodedFrame(i, size, type, qp) ==
    [pts |-> i, size |-> size, type |-> type, qp |-> qp,
     isKeyFrame |-> (type = "I_FRAME")]

\* The files of n frames.
Files(n) ==
    {[i \in 1..n |-> DecodedFrame(i, c[i][1], c[i][2][1], c[i][2][2])] :
        c \in [1..n -> FileSizes \X FileKinds]}

\* The file of scenario C: four frames alike but for their sizes.
ScenarioCSizes == <<1000, 1005, 1200, 1203>>

\* A file of three frames within one percent of each other and a fourth
\* apart.
ChainSizes == <<100, 101, 102, 200>>

\* The file of P-frames of the given sizes.
FileOfSizes(sizes) ==
    [i \in 1..Len(sizes) |-> DecodedFrame(i, sizes[i], "P_FRAME", 20)]

ScenarioC == FileOfSizes(ScenarioCSizes)

\* The values the two uninitialized fields of a collected FrameInfo may
\* show: cleared, or what an earlier object left in the memory.
IndeterminateFlags ==
    {[isDuplicate |-> FALSE, duplicateGroupId |-> -1],
     [isDuplicate |-> TRUE, duplicateGroupId |-> 0]}

\* video_analyzer.cpp:17-19: the first k frames of the file as pushed to
\* frames_, their uninitialized fields showing fl[i].
Collected(f, k, fl) ==
    [i \in 1..k |->
        [pts |-> f[i].pts, size |-> f[i].size, type |-> f[i].type,
         qp |-> f[i].qp, isKeyFrame |-> f[i].isKeyFrame,
         isDuplicate |-> fl[i].isDuplicate,
         duplicateGroupId |-> fl[i].duplicateGroupId]]

\* video_analyzer.h:67-69: the default arguments of detectDuplicateFrames.
DefaultConfig ==
    [size_tolerance |-> 1, require_same_qp |-> TRUE, require_same_type |-> TRUE]

\* The arguments detectDuplicateFrames is called with; the tolerance is a
\* whole number of percent.
Tolerances == {-1, 1, 100}

Configs ==
    [size_tolerance : Tolerances, require_same_qp : BOOLEAN,
     require_same_type : BOOLEAN]

NoConfig == [size_tolerance |-> 0, require_same_qp |-> FALSE,
             require_same_type |-> FALSE, none |-> TRUE]

\* Variant: the flags of the earlier run are kept.
ResetFlags_Skipped(frames) == frames

\* video_analyzer.cpp:50-53: every frame is marked as no duplicate.
ResetFlags(frames) ==
    [i \in DOMAIN frames |->
        [frames[i] EXCEPT !.isDuplicate = FALSE, !.duplicateGroupId = -1]]

Abs(x) == IF x < 0 THEN -x ELSE x

\* video_analyzer.cpp:63: |current.size - prev.size| <= prev.size *
\* size_tolerance / 100, exact for whole sizes and tolerances.
SizeMatch(current, prev, size_tolerance) ==
    Abs(current.size - prev.size) * 100 <= prev.size * size_tolerance

\* Variant: the QP is compared whatever require_same_qp says.
FramesMatch_AlwaysQp(current, prev, cfg) ==
    /\ SizeMatch(current, prev, cfg.size_tolerance)
    /\ current.qp = prev.qp
    /\ ~cfg.require_same_type \/ current.type = prev.type

\* video_analyzer.cpp:63-71: sizeMatch && qpMatch && typeMatch.
FramesMatch(current, prev, cfg) ==
    /\ SizeMatch(current, prev, cfg.size_tolerance)
    /\ ~cfg.require_same_qp \/ current.qp = prev.qp
    /\ ~cfg.require_same_type \/ current.type = prev.type

\* video_analyzer.cpp:73-83: the assignments made for a matching pair at
\* position i. prev is a reference to frames_[i - 1], so the test of line 82
\* reads the group id that line 78 has just written.
MarkPair(frames, i, currentGroupId) ==
    LET marked == [frames EXCEPT ![i].isDuplicate = TRUE]
        grouped == IF marked[i - 1].duplicateGroupId = -1
                   THEN [marked EXCEPT ![i - 1].isDuplicate = TRUE,
                                       ![i - 1].duplicateGroupId = currentGroupId]
                   ELSE marked
        prev == grouped[i - 1]
    IN  [grouped EXCEPT ![i].duplicateGroupId =
            IF prev.duplicateGroupId # -1 THEN prev.duplicateGroupId
            ELSE currentGroupId]

\* video_analyzer.cpp:86-88: currentGroupId after a matching pair; the test
\* reads frames_[i - 1] through the same reference, after MarkPair.
GroupIdAfterPair(marked, i, currentGroupId) ==
    IF marked[i - 1].duplicateGroupId = -1 THEN currentGroupId + 1
    ELSE currentGroupId

RECURSIVE DuplicateLoop(_, _, _, _)
\* video_analyzer.cpp:58-90: the loop over consecutive frames from position
\* i (positions count from 1).
DuplicateLoop(frames, i, currentGroupId, cfg) ==
    IF i > Len(frames) THEN frames
    ELSE IF FramesMatch(frames[i], frames[i - 1], cfg)
    THEN LET marked == MarkPair(frames, i, currentGroupId)
         IN  DuplicateLoop(marked, i + 1,
                           GroupIdAfterPair(marked, i, currentGroupId), cfg)
    ELSE DuplicateLoop(frames, i + 1, currentGroupId, cfg)

\* VideoAnalyzer::detectDuplicateFrames, video_analyzer.cpp:42-104.
detectDuplicateFrames(frames, cfg) ==
    IF frames = <<>> THEN frames
    ELSE DuplicateLoop(ResetFlags(frames), 2, 0, cfg)

\* A VideoAnalyzer just constructed, and the file it will be given.
VideoInitFor(fs) ==
    /\ file \in fs
    /\ stream_info_ = "unset"
    /\ frames_ = <<>>
    /\ analyzedGops = <<>>
    /\ outcome = "none"
    /\ lastConfig = NoConfig

VideoInit ==
    VideoInitFor(UNION {Files(n) : n \in 0..MaxFileFrames}
                    \cup {ScenarioC, FileOfSizes(ChainSizes)})

\* VideoAnalyzer::analyze, video_analyzer.cpp:7-40, when nothing fails: the
\* frames of both passes are those of the file.
Analyze_Returns ==
    /\ file # <<>>
    /\ stream_info_' = "file"
    /\ \E fl \in [1..Len(file) -> IndeterminateFlags] :
          frames_' = detectDuplicateFrames(Collected(file, Len(file), fl),
                                           DefaultConfig)
    /\ analyzedGops' = detectGOPBoundaries(file, <<>>)
    /\ lastConfig' = DefaultConfig
    /\ outcome' = "returned"
    /\ UNCHANGED file
    /\ UNCHANGED outsideVideo

\* The places at which analyze can be left by an exception: the decoder's
\* constructor (line 9), a readNextFrame of the first pass (line 17), the
\* test for no frames (line 22), the reset or the second pass (lines 26-30).
FailurePoints == {"open", "read", "empty", "gop"}

\* VideoAnalyzer::analyze, left by an exception at the given point, the
\* first pass having pushed k frames.
Analyze_Throws ==
    /\ \E at \in FailurePoints : \E k \in 0..Len(file) :
        \E fl \in [1..k -> IndeterminateFlags] :
          /\ at = "open" => k = 0
          /\ at = "empty" => file = <<>>
          /\ at = "gop" => (k = Len(file) /\ file # <<>>)
          /\ at = "read" => (k < Len(file) \/ file = <<>>)
          /\ stream_info_' = IF at = "open" THEN stream_info_ ELSE "file"
          /\ frames_' = IF at = "open" THEN frames_ ELSE Collected(file, k, fl)
          /\ outcome' = IF at = "empty" THEN "runtime_error" ELSE "FFmpegError"
    /\ UNCHANGED <<file, analyzedGops, lastConfig>>
    /\ UNCHANGED outsideVideo

\* VideoAnalyzer::detectDuplicateFrames(size_tolerance, require_same_qp,
\* require_same_type), video_analyzer.cpp:42-104: it returns normally for
\* every argument.
DetectDuplicates ==
    /\ \E cfg \in Configs :
          /\ lastConfig' = cfg
          /\ frames_' = detectDuplicateFrames(frames_, cfg)
    /\ outcome' = "returned"
    /\ UNCHANGED <<file, stream_info_, analyzedGops>>
    /\ UNCHANGED outsideVideo

VideoNext ==
    \/ Analyze_Returns
    \/ Analyze_Throws
    \/ DetectDuplicates

(***************************************************************************)
(* VideoDecoder (the frame pump) and the codec engine                      *)
(***************************************************************************)

\* VideoDecoder::VideoDecoder, video_decoder.cpp:39-51: the engine's thread
\* count for constructor argument tc when the machine reports hc cores.
DecoderThreads(tc, hc) ==
    IF tc = 0
    THEN IF hc = 0 THEN 1 ELSE hc
    ELSE Min(tc, IF hc = 0 THEN 1 ELSE hc)

\* All orders in which n frames with presentation timestamps 1..n can be
\* stored in a file.
PtsOrders(n) ==
    {f \in [1..n -> 1..n] : \A i, j \in 1..n : i # j => f[i] # f[j]}

\* No frame is preceded in the file by more than d frames that are presented
\* after it: the codec's declared reorder depth covers the stream.
ReorderWithin(f, n, d) ==
    \A j \in 1..n : Cardinality({i \in 1..(j - 1) : f[i] > f[j]}) <= d

\* The k-th video packet of a file whose frames are stored in order f.
VideoPacket(f, k) == [stream |-> "video", pts |-> f[k], dts |-> k, size |-> 10 * k]

\* A packet of another stream of the file.
AudioPacket == [stream |-> "audio", pts |-> 0, dts |-> 0, size |-> 5]

\* The file: n video packets in order f, with an audio packet after the
\* a-th of them when a > 0.
FilePackets(f, n, a) ==
    [i \in 1..(IF a > 0 THEN n + 1 ELSE n) |->
        IF a = 0 \/ i <= a THEN VideoPacket(f, i)
        ELSE IF i = a + 1 THEN AudioPacket
        ELSE VideoPacket(f, i - 1)]

\* The state after VideoDecoder's construction, for constructor arguments
\* from TC on machines from HC and files of up to N video packets.
PumpInitFor(TC, HC, N, D) ==
    /\ cores \in HC
    /\ \E tc \in TC : threadCount = DecoderThreads(tc, cores)
    /\ reorderDepth \in D
    /\ \E n \in N : \E f \in PtsOrders(n) : \E a \in 0..n :
          /\ ReorderWithin(f, n, reorderDepth)
          /\ packets = FilePackets(f, n, a)
    /\ filePos = 0
    /\ codecBuf = {}
    /\ endOfStream = FALSE
    /\ lastPacketSize = 0
    /\ lastResult = "none"
    /\ returned = <<>>
    /\ passes = 1

PumpInit ==
    PumpInitFor(0..MaxThreadCount, 1..MaxCores, 1..MaxPackets, 0..MaxReorder)

\* No packet: avcodec_receive_frame has no frame to give.
NoPacket == [stream |-> "none", pts |-> 0, dts |-> 0, size |-> 0]

\* Frames the codec holds back before it gives the first one: its reorder
\* depth, and one per additional frame thread (video_decoder.cpp:108-111),
\* for a codec opened with tc threads.
CodecDelay(tc) == reorderDepth + (tc - 1)

\* avcodec_receive_frame, called at video_decoder.cpp:196 and 243: the codec
\* gives the frame that is presented first among those it holds, once it
\* holds more than its delay or is being flushed; NoPacket stands for EAGAIN
\* (not flushing) and AVERROR_EOF (flushing).
CodecReceive(delay, buf, flushing) ==
    IF buf # {} /\ (flushing \/ Cardinality(buf) > delay)
    THEN CHOOSE x \in buf : \A y \in buf : x.pts <= y.pts
    ELSE NoPacket

\* Variant: the record's pts is filled from the frame's pkt_dts.
FramePts_FromDts(fr) == fr.dts

\* video_decoder.cpp:202 and 246: info.pts = frame->pts.
FramePts(fr) == fr.pts

\* video_decoder.cpp:200-209 (245-254): the record built for a frame.
MakeFrameInfo(fr, lps) == [pts |-> FramePts(fr), dts |-> fr.dts, size |-> lps]

\* VideoDecoder::readNextFrame, video_decoder.cpp:193-291: the loop, from file
\* position pos with the codec, of the given delay, holding buf and
\* lastPacketSize lps; the read of packet number bad fails with an error other
\* than end of file.
RECURSIVE ReadLoop(_, _, _, _, _)
ReadLoop(delay, pos, buf, lps, bad) ==
    LET fr == CodecReceive(delay, buf, FALSE) IN
    IF fr # NoPacket
    THEN [result |-> "frame", info |-> MakeFrameInfo(fr, lps), pos |-> pos,
          buf |-> buf \ {fr}, lps |-> lps, eos |-> FALSE]
    ELSE IF pos + 1 = bad
    THEN [result |-> "error", info |-> NoPacket, pos |-> pos, buf |-> buf,
          lps |-> lps, eos |-> FALSE]
    ELSE IF pos = Len(packets)
    THEN LET last == CodecReceive(delay, buf, TRUE) IN
         [result |-> IF last # NoPacket THEN "frame" ELSE "nullopt",
          info |-> IF last # NoPacket THEN MakeFrameInfo(last, lps) ELSE NoPacket,
          pos |-> pos, buf |-> buf \ {last}, lps |-> lps, eos |-> TRUE]
    ELSE IF packets[pos + 1].stream # "video"
    THEN ReadLoop(delay, pos + 1, buf, lps, bad)
    ELSE ReadLoop(delay, pos + 1, buf \cup {packets[pos + 1]},
                  packets[pos + 1].size, bad)

\* Variant: readNextFrame does not test endOfStream on entry.
IsFinished_Never == FALSE

\* video_decoder.cpp:186: readNextFrame returns nullopt when endOfStream is set.
IsFinished == endOfStream

\* VideoDecoder::hasMoreFrames, video_decoder.cpp:315-317.
hasMoreFrames == ~endOfStream

\* VideoDecoder::readNextFrame, video_decoder.cpp:185-292.
NextFrame ==
    /\ \E bad \in 0..Len(packets) :
          LET r == IF IsFinished
                   THEN [result |-> "nullopt", info |-> NoPacket, pos |-> filePos,
                         buf |-> codecBuf, lps |-> lastPacketSize, eos |-> TRUE]
                   ELSE ReadLoop(CodecDelay(threadCount), filePos, codecBuf,
                                 lastPacketSize, bad) IN
          /\ lastResult' = r.result
          /\ returned' = IF r.result = "frame" THEN Append(returned, r.info)
                         ELSE returned
          /\ filePos' = r.pos
          /\ codecBuf' = r.buf
          /\ lastPacketSize' = r.lps
          /\ endOfStream' = r.eos
    /\ UNCHANGED <<cores, threadCount, packets, reorderDepth, passes>>
    /\ UNCHANGED outsidePump

\* Variant: seekToTime leaves the codec's buffers as they are.
FlushedCodec_Kept == codecBuf

\* video_decoder.cpp:307: avcodec_flush_buffers drops the frames the codec holds.
FlushedCodec == {}

\* VideoDecoder::reset, video_decoder.cpp:311-313: seekToTime(0.0), lines
\* 294-309: seek the file to its start, flush the codec, clear endOfStream.
Reset ==
    /\ passes < MaxPasses
    /\ passes' = passes + 1
    /\ filePos' = 0
    /\ codecBuf' = FlushedCodec
    /\ endOfStream' = FALSE
    /\ returned' = <<>>
    /\ lastResult' = "none"
    /\ UNCHANGED <<cores, threadCount, packets, reorderDepth, lastPacketSize>>
    /\ UNCHANGED outsidePump

\* VideoAnalyzer::analyze, video_analyzer.cpp:17-19 (GOPAnalyzer::analyze,
\* gop_analyzer.cpp:15-17): the records collected by calling readNextFrame
\* until it returns nullopt, from the given decoder state.
RECURSIVE ReadAll(_, _, _, _, _)
ReadAll(delay, pos, buf, lps, eos) ==
    IF eos THEN <<>>
    ELSE LET r == ReadLoop(delay, pos, buf, lps, 0) IN
         IF r.result = "frame"
         THEN <<r.info>> \o ReadAll(delay, r.pos, r.buf, r.lps, r.eos)
         ELSE <<>>

\* The records of a full pass over the file, freshly opened by a decoder
\* whose codec runs tc threads.
PassWith(tc) == ReadAll(CodecDelay(tc), 0, {}, 0, FALSE)

\* The records of a full pass over the freshly opened file.
FirstPass == PassWith(threadCount)

PumpNext ==
    \/ NextFrame
    \/ Reset

(***************************************************************************)
(* Claims about StreamAnalyzer                                             *)
(***************************************************************************)

\* The state that start() and stop() must leave alone when they do nothing.
analyzerState ==
    <<running_, joinable, liveLoops, terminated, loopVars, dataVars, outVars,
      srcVars>>

\* C7: with one controlling thread, start() on a running analyzer spawns no
\* second loop and changes nothing, stop() on an idle analyzer does nothing,
\* and at most one background loop thread exists at any moment.
C7_StartStopIdempotent ==
    /\ [](~terminated /\ liveLoops <= 1)
    /\ [][\A c \in Controllers :
            /\ (cpc[c] = "idle" /\ running_) => cpc'[c] \notin StartPcs
            /\ (cpc[c] = "idle" /\ ~running_) => cpc'[c] \notin StopPcs]_vars
    /\ [][(lastCall' # lastCall /\ lastCall' \in {"start_noop", "stop_noop"})
            => UNCHANGED <<analyzerState, cpc>>]_vars
    /\ [][liveLoops' > liveLoops => (liveLoops = 0 /\ lastCall = "start")]_vars

\* start() was called on a running analyzer whose loop is in the middle of a
\* frame, and the one loop is still there.
C7_Witness ==
    /\ lastCall = "start_noop"
    /\ running_
    /\ liveLoops = 1
    /\ lpc = "w_evict"
    /\ Len(frameWindow_) = 2

\* C8: stop() on a running analyzer returns, and when it returns the loop has
\* ended, the export sink is closed and the analyzer is idle; from then on no
\* frame is appended, no callback runs and no export line is written.
C8_StopIsSynchronous ==
    /\ [][\A c \in Controllers :
            (cpc[c] = "stop_close" /\ cpc'[c] = "idle")
                => (lpc' = "none" /\ liveLoops' = 0 /\ ~joinable'
                    /\ ~sinkOpen' /\ ~running_')]_vars
    /\ [](stopReturned => (lpc = "none" /\ ~sinkOpen /\ ~running_))
    /\ [][stopReturned =>
            UNCHANGED <<frameWindow_, anomalies_, previousFrame_, exportedLines,
                        frameCbCalls, anomalyCbCalls>>]_vars
    /\ \A c \in Controllers : (cpc[c] \in StopPcs) ~> (cpc[c] = "idle")

\* stop() has returned in the middle of the stream, after the loop had
\* delivered a frame to the window, the callbacks and the export sink.
C8_Witness ==
    /\ stopReturned
    /\ lastCall = "stop"
    /\ srcPos = 1
    /\ Len(frameWindow_) = 1
    /\ frameCbCalls = 1
    /\ anomalyCbCalls >= 1
    /\ exportedLines = 1

\* C9: whenever the data mutex is free, the window holds at most
\* maxWindowSize frames and the anomaly log at most maxAnomalies entries.
C9_CapsHold ==
    dataMutex_ = "free" =>
        /\ Len(frameWindow_) <= maxWindowSize
        /\ Len(anomalies_) <= maxAnomalies

\* A source longer than the window has been consumed to its end, with more
\* anomalies than the log holds; both are full.
C9_Witness ==
    /\ dataMutex_ = "free"
    /\ srcPos = maxWindowSize + ExtraFrames
    /\ lpc = "top"
    /\ Len(frameWindow_) = maxWindowSize
    /\ Len(anomalies_) = maxAnomalies
    /\ anomalyCbCalls > 2 * maxWindowSize

(***************************************************************************)
(* Claims about VideoDecoder                                               *)
(***************************************************************************)

\* The video packets read from the file in this pass.
VideoRead == {packets[i] : i \in {k \in 1..filePos : packets[k].stream = "video"}}

\* C10: whatever the thread count, the records readNextFrame returns within
\* one pass have strictly increasing presentation timestamps, and each is the
\* frame of a different packet that was read and that the codec has given.
C10_PtsStrictlyIncreasing ==
    /\ \A i, j \in 1..Len(returned) : i < j => returned[i].pts < returned[j].pts
    /\ \A i \in 1..Len(returned) :
          \E pk \in VideoRead \ codecBuf :
              pk.pts = returned[i].pts /\ pk.dts = returned[i].dts
    /\ Len(returned) + Cardinality(codecBuf) <= Cardinality(VideoRead)

\* With two engine threads, a pass over a file stored out of presentation
\* order has returned three frames, the last after the end of the file.
C10_Witness ==
    /\ threadCount = 2
    /\ reorderDepth = 1
    /\ Len(returned) = 3
    /\ \E i \in 1..2 : returned[i].dts > returned[i + 1].dts
    /\ \E i \in 1..Len(packets) : packets[i].stream = "audio"
    /\ endOfStream
    /\ passes = 2

\* C11: no decoded frame is dropped at the end of the stream: when the
\* stream is marked finished the codec holds no frame any more, and every
\* video packet read in the pass has had its frame returned.
C11_DrainsAllHeldFrames ==
    endOfStream =>
        /\ codecBuf = {}
        /\ Len(returned) = Cardinality(VideoRead)

\* C12: every returned record's size is the size of the packet its frame was
\* decoded from.
C12_SizeOfOriginatingUnit ==
    \A i \in 1..Len(returned) :
        \E pk \in VideoRead :
            pk.dts = returned[i].dts /\ pk.size = returned[i].size

IsPrefix(a, b) == Len(a) <= Len(b) /\ SubSeq(b, 1, Len(a)) = a

\* C13: in every pass, also one begun by reset() after any part of an earlier
\* pass, the records returned so far are the beginning of the first full pass
\* over the fresh file, and all of it once the stream is finished; reset()
\* clears the finished flag.
C13_ResetRestartsCleanly ==
    /\ [](IsPrefix(returned, FirstPass))
    /\ []((endOfStream /\ lastResult = "nullopt") => returned = FirstPass)
    /\ [][passes' # passes =>
            (~endOfStream' /\ returned' = <<>> /\ filePos' = 0)]_vars

\* The third pass (the GOP pass after the frame-collection pass) has ended
\* with the records of the first pass, which has several frames in a file
\* stored out of presentation order.
C13_Witness ==
    /\ passes = 3
    /\ endOfStream
    /\ lastResult = "nullopt"
    /\ Len(returned) = 3
    /\ returned = FirstPass
    /\ threadCount = 2
    /\ \E i \in 1..2 : returned[i].dts > returned[i + 1].dts

\* C14: from the moment the stream is finished, which is exactly when
\* hasMoreFrames() is false, every readNextFrame() returns nullopt, reads
\* nothing and returns no record, and the stream stays finished until reset().
C14_FinishedStaysFinished ==
    /\ [][(~hasMoreFrames /\ passes' = passes) =>
            /\ lastResult' = "nullopt"
            /\ ~hasMoreFrames'
            /\ UNCHANGED <<filePos, codecBuf, returned, lastPacketSize>>]_vars
    /\ [](lastResult = "nullopt" => ~hasMoreFrames)

\* After the stream was finished with a frame still held by the codec, a
\* further readNextFrame() has returned nullopt.
C14_Witness ==
    /\ ~hasMoreFrames
    /\ lastResult = "nullopt"
    /\ codecBuf # {}
    /\ Len(returned) = 2
    /\ filePos = Len(packets)

(***************************************************************************)
(* Claims about the read APIs                                              *)
(***************************************************************************)

\* C15: the read APIs hold the data mutex only while copying the frames out;
\* the statistics are computed with the mutex released, so the background
\* loop never waits for the mutex while a reader computes.
C15_ComputesOutsideLock ==
    (rpc = "compute" /\ rcopy # <<>> /\ lpc \in {"w_lock", "a_lock"})
        => dataMutex_ # "reader"

\* The frames of win whose timestamp lies in [latest - w, latest], latest
\* being the timestamp of the frame pushed last.
InClosedInterval(win, w) ==
    IF win = <<>> THEN <<>>
    ELSE LET latest == win[Len(win)].timestamp
             Inside(f) == latest - w <= f.timestamp /\ f.timestamp <= latest
         IN SelectSeq(win, Inside)

\* C16: the frames a read API computes on are exactly the buffered frames
\* with a timestamp in [latest - windowSize, latest].
C16_SubsetIsClosedInterval ==
    rpc = "compute" => rcopy = InClosedInterval(frameWindow_, rwindow)

(***************************************************************************)
(* Claims about anomaly detection                                          *)
(***************************************************************************)

\* The background thread is between two frames: every frame pulled so far
\* has been processed to the end.
BetweenFrames == lpc \in {"none", "top", "read", "sleep", "exited"}

\* The entries of the anomaly log that have the given type.
LogOfType(log, type) ==
    LET Has(a) == a.type = type IN SelectSeq(log, Has)

\* Twice the nominal frame interval, in ticks.
DropGap == (2 * TicksPerSecond) \div NominalFps

RECURSIVE ExpectedDrops(_, _)
\* The FrameDrop anomalies the frames win[1..n] call for: one for each frame
\* that follows its predecessor by more than DropGap, at that frame's
\* timestamp.
ExpectedDrops(win, n) ==
    IF n <= 1 THEN <<>>
    ELSE ExpectedDrops(win, n - 1) \o
         (IF win[n].timestamp - win[n - 1].timestamp > DropGap
          THEN <<[type |-> "FRAME_DROP", timestamp |-> win[n].timestamp]>>
          ELSE <<>>)

\* C17: the FrameDrop anomalies logged are exactly one for each frame but the
\* first that follows its predecessor by more than twice the nominal
\* interval, each at that frame's timestamp; the scenario with one 0.5 s gap
\* before frame 11 logs exactly one, at frame 11's timestamp.
C17_FrameDropRule ==
    BetweenFrames =>
        /\ LogOfType(anomalies_, "FRAME_DROP")
              = ExpectedDrops(frameWindow_, Len(frameWindow_))
        /\ (srcMode = "scenario" /\ srcPos >= GapFrame) =>
              LogOfType(anomalies_, "FRAME_DROP")
                  = <<[type |-> "FRAME_DROP", timestamp |-> 3 * GapFrame + 42]>>
        /\ (srcMode = "scenario" /\ srcPos < GapFrame) =>
              LogOfType(anomalies_, "FRAME_DROP") = <<>>

\* The whole scenario has been processed: one FrameDrop is logged.
C17_Witness ==
    /\ srcMode = "scenario"
    /\ srcPos = ScenarioLength
    /\ BetweenFrames
    /\ Len(frameWindow_) = ScenarioLength
    /\ Len(LogOfType(anomalies_, "FRAME_DROP")) = 1
    /\ anomalyCbCalls = 1

RECURSIVE ExpectedSpikes(_, _)
\* The BitrateSpike anomalies the frames win[1..n] call for: one for each
\* frame whose bits exceed three times the bits of the frame just before it.
ExpectedSpikes(win, n) ==
    IF n <= 1 THEN <<>>
    ELSE ExpectedSpikes(win, n - 1) \o
         (IF win[n].size * 8 > 3 * (win[n - 1].size * 8)
          THEN <<[type |-> "BITRATE_SPIKE", timestamp |-> win[n].timestamp]>>
          ELSE <<>>)

ExpectedFor(f, prev) ==
    (IF prev # NoFrame /\ f.timestamp - prev.timestamp > DropGap
     THEN <<[type |-> "FRAME_DROP", timestamp |-> f.timestamp]>> ELSE <<>>)
    \o (IF prev # NoFrame /\ f.size * 8 > 3 * (prev.size * 8)
        THEN <<[type |-> "BITRATE_SPIKE", timestamp |-> f.timestamp]>> ELSE <<>>)
    \o (IF f.qp > 40
        THEN <<[type |-> "QUALITY_DROP", timestamp |-> f.timestamp]>> ELSE <<>>)

RECURSIVE ExpectedLog(_, _)
\* The anomaly log the frames win[1..n] call for.
ExpectedLog(win, n) ==
    IF n = 0 THEN <<>>
    ELSE ExpectedLog(win, n - 1) \o
         ExpectedFor(win[n], IF n = 1 THEN NoFrame ELSE win[n - 1])

\* C19: a QualityDrop is logged for exactly the frames with qp above 40, the
\* first frame included, after any FrameDrop and BitrateSpike of the same
\* frame: the log is the one the three rules call for, frame by frame.
C19_QualityDropRule ==
    BetweenFrames =>
        /\ anomalies_ = ExpectedLog(frameWindow_, Len(frameWindow_))
        /\ Len(LogOfType(anomalies_, "QUALITY_DROP"))
              = Cardinality({i \in 1..Len(frameWindow_) : frameWindow_[i].qp > 40})

\* The first frame was logged as a QualityDrop, and the second as all three
\* anomalies, in order.
C19_Witness ==
    /\ srcMode = "detect"
    /\ BetweenFrames
    /\ Len(frameWindow_) = 2
    /\ Len(anomalies_) = 4
    /\ anomalies_[1] = [type |-> "QUALITY_DROP", timestamp |-> frameWindow_[1].timestamp]
    /\ anomalies_[2] = [type |-> "FRAME_DROP", timestamp |-> frameWindow_[2].timestamp]
    /\ anomalies_[3] = [type |-> "BITRATE_SPIKE", timestamp |-> frameWindow_[2].timestamp]
    /\ anomalies_[4] = [type |-> "QUALITY_DROP", timestamp |-> frameWindow_[2].timestamp]
    /\ anomalyCbCalls = 4

\* The paths of readNextFrame on which a library call fails with an error
\* that is neither "try again" nor end of data.
FatalPaths == {path \in ReadPaths : \E n \in 1..4 : path[n] = "error"}

\* C28: a fatal engine error in the background loop's read marks the source
\* inactive, so that the loop ends, and leaves the window and the anomaly
\* log as they were.
C28_FatalErrorEndsLoop ==
    [][\A path \in FatalPaths :
          Loop_ReadVia(path) =>
              /\ ~isStreamActive'
              /\ lpc' # "w_lock"
              /\ UNCHANGED <<frameWindow_, anomalies_>>]_vars

\* Every figure of the statistics is zero and no division was made.
AllZero(stats) ==
    /\ ~stats.divided
    /\ stats.averageBitrate = 0
    /\ stats.maxBitrate = 0
    /\ stats.minBitrate = 0
    /\ stats.stdDeviation = 0

\* The frames selected from the window span no positive time.
NoSpan(fs) == fs = <<>> \/ fs[Len(fs)].timestamp - fs[1].timestamp <= 0

\* C30: getCurrentBitrateStats returns all-zero statistics, without
\* dividing, when the window is empty or the selected frames span no
\* positive time.
C30_ZeroWithoutSpan ==
    [][/\ (Reader_Select /\ rkind = "bitrate" /\ frameWindow_ = <<>>)
            => (rpc' = "idle" /\ AllZero(rresult'))
       /\ (Reader_Compute /\ rkind = "bitrate" /\ NoSpan(rcopy))
            => AllZero(rresult')]_vars

\* Zero statistics were returned for a window of two frames with the same
\* timestamp.
C30_Witness ==
    /\ rpc = "idle"
    /\ rresult.kind = "bitrate"
    /\ rresult.count = 2
    /\ Len(frameWindow_) = 2
    /\ frameWindow_[1].timestamp = frameWindow_[2].timestamp
    /\ AllZero(rresult)

\* C33: the pool has max(1, min(r, h)) threads, h being the hardware
\* concurrency or 1 when that is unknown and r the request or h when the
\* request is 0, and reports that number all its life.
C33_EffectiveThreadCount ==
    LET h == IF hardware = 0 THEN 1 ELSE hardware
        r == IF requested = 0 THEN h ELSE requested
        least == IF r < h THEN r ELSE h
    IN  getThreadCount = (IF least < 1 THEN 1 ELSE least)

\* A pool asked for more threads than the machine has, destroyed after it
\* ran a task, still reports the machine's number.
C33_Witness ==
    /\ requested = MaxRequested
    /\ hardware = 1
    /\ requested > hardware
    /\ getThreadCount = 1
    /\ execCount[1] = 1
    /\ dpc = "done"

\* C34: however the start() calls of several threads interleave, at most
\* one background loop exists and no thread is assigned over a joinable
\* one (which ends the process in std::terminate).
C34_OneLoopPerStart == liveLoops <= 1 /\ ~terminated

\* The presentation timestamps of a sequence of records.
PtsOf(recs) == [i \in 1..Len(recs) |-> recs[i].pts]

\* C31: a full pass returns as many frames as a pass of a decoder with one
\* thread over the same file, with the same presentation timestamps
\* position by position.
C31_SameAsSingleThread ==
    (endOfStream /\ lastResult = "nullopt")
        => PtsOf(returned) = PtsOf(PassWith(1))

\* C32: a freshly opened live source is active; StreamDecoder::stop makes it
\* inactive; an inactive source gives no frame and never becomes active
\* again.
C32_InactiveIsAbsorbing ==
    /\ isStreamActive = TRUE
    /\ [][/\ (\E c \in Controllers : Stop_Decoder(c)) => ~isStreamActive'
          /\ (~isStreamActive /\ Loop_Read) => (frame' = NoFrame /\ lpc' = "sleep")
          /\ ~isStreamActive => ~isStreamActive']_vars

\* The loop has read from the source after stop() had made it inactive, and
\* got no frame.
C32_Witness ==
    /\ ~isStreamActive
    /\ ~running_
    /\ \E c \in Controllers : cpc[c] = "stop_join"
    /\ lpc = "sleep"
    /\ frame = NoFrame
    /\ srcPos < SourceLength

\* The most recent min(n, maxWindowSize) frames of the sustained source after
\* n were pulled, oldest first.
Recent(n) ==
    LET m == Min(n, maxWindowSize) IN
        [i \in 1..m |-> SustainedFrame(n - m + i)]

\* C35: once the frame pulled last has been processed by the window step, the
\* window holds the most recent min(n, 300) of the n frames pulled, in
\* arrival order; between the push and the trim its last entry is the frame
\* just pulled; and the push is possible whenever the mutex is free, however
\* full the window is.
C35_NewestKeptOldestEvicted ==
    /\ lpc \notin {"w_lock", "w_evict"} => frameWindow_ = Recent(srcPos)
    /\ lpc = "w_lock" => frameWindow_ = Recent(srcPos - 1)
    /\ lpc = "w_evict" =>
          /\ frameWindow_[Len(frameWindow_)] = frame
          /\ \/ frameWindow_ = Recent(srcPos)
             \/ Tail(frameWindow_) = Recent(srcPos)
    /\ (lpc = "w_lock" /\ dataMutex_ = "free" /\ ~terminated) =>
          ENABLED Loop_WindowPush

\* The source has delivered more frames than the window holds; the oldest
\* were evicted and the newest is the last entry.
C35_Witness ==
    /\ srcPos = maxWindowSize + ExtraFrames
    /\ lpc = "a_check"
    /\ Len(frameWindow_) = maxWindowSize
    /\ frameWindow_[1] = SustainedFrame(ExtraFrames + 1)
    /\ frameWindow_[maxWindowSize] = SustainedFrame(srcPos)

\* The position of a step of the background loop in the processing of one
\* frame: window, detection, frame callback, export, previous frame.
StepRank(pc) ==
    CASE pc \in {"w_lock", "w_evict"} -> 1
      [] pc \in {"a_check", "a_lock", "a_cap", "a_cb"} -> 2
      [] pc = "f_cb" -> 3
      [] pc = "export" -> 4
      [] pc = "prev" -> 5
      [] OTHER -> 0

\* The frame pulled last has been pushed into the window and is being
\* processed.
Processing == StepRank(lpc) >= 2

\* The anomalies of frame f after the previous frame prev.
AnomaliesOf(f, prev) ==
    {MakeAnomaly(k, f) : k \in {j \in 1..3 : AnomalyDetected(j, f, prev)}}

InLog(a) == \E i \in 1..Len(anomalies_) : anomalies_[i] = a

\* C36: while a frame is processed it is the newest entry of the window and
\* the previous frame is the entry before it (none for the first frame); the
\* anomaly callback runs for the newest entry of the log; when the frame
\* callback runs every anomaly of the frame is in the log; the steps of one
\* frame follow each other in the order window, detection, frame callback,
\* export, previous frame, each effect in its own step, and a frame is pulled
\* only when the frame before has been through all of them.
C36_StepsInOrder ==
    /\ [](Processing =>
            /\ frame # NoFrame
            /\ frameWindow_[Len(frameWindow_)] = frame
            /\ previousFrame_ = IF Len(frameWindow_) >= 2
                                THEN frameWindow_[Len(frameWindow_) - 1]
                                ELSE NoFrame)
    /\ [](lpc = "a_cb" =>
            /\ AnomalyDetected(stage, frame, previousFrame_)
            /\ anomalies_[Len(anomalies_)] = MakeAnomaly(stage, frame))
    /\ [](StepRank(lpc) >= 3 =>
            \A a \in AnomaliesOf(frame, previousFrame_) : InLog(a))
    /\ [][/\ (StepRank(lpc) > 0 /\ StepRank(lpc') > 0) =>
                StepRank(lpc') \in {StepRank(lpc), StepRank(lpc) + 1}
          /\ srcPos' # srcPos => (lpc = "read" /\ lpc' = "w_lock")
          /\ (lpc' = "w_lock" /\ lpc # "w_lock") => lpc = "read"
          /\ (StepRank(lpc) = 5 /\ lpc' # lpc) => lpc' = "top"
          /\ frameWindow_' # frameWindow_ => StepRank(lpc) = 1
          /\ anomalies_' # anomalies_ => StepRank(lpc) = 2
          /\ anomalyCbCalls' # anomalyCbCalls => lpc = "a_cb"
          /\ frameCbCalls' # frameCbCalls => (lpc = "f_cb" /\ lpc' = "export")
          /\ exportedLines' # exportedLines => (lpc = "export" /\ lpc' = "prev")
          /\ previousFrame_' # previousFrame_ =>
                (lpc = "prev" /\ previousFrame_' = frame)]_vars

\* The frame callback is about to run for the second frame, which came late
\* and large with a high QP: its three anomalies are in the log after those
\* of the first frame, and the anomaly callback has run for each of them.
C36_Witness ==
    /\ lpc = "f_cb"
    /\ frameCallback_ /\ anomalyCallback_
    /\ Len(frameWindow_) = 2
    /\ Cardinality(AnomaliesOf(frame, previousFrame_)) = 3
    /\ previousFrame_ = frameWindow_[1]
    /\ frameCbCalls = 1
    /\ anomalyCbCalls = Len(anomalies_)

\* The background loop is between a lock of dataMutex_ and its unlock.
LoopInside == lpc \in {"w_evict", "a_cap"}

\* The caller of a read API is between the lock of dataMutex_ and the return.
ReaderInside == rpc \in {"select", "compute"}

\* C37: the loop and a caller of a read API are never both inside a critical
\* section, each is inside one exactly when it holds dataMutex_, and the
\* window and the log are written only by a step of the loop that starts or
\* ends inside one, and read only by a step of the caller that starts inside
\* one.
C37_AccessUnderOneMutex ==
    /\ [](/\ ~(LoopInside /\ ReaderInside)
          /\ LoopInside <=> dataMutex_ = "loop"
          /\ ReaderInside <=> dataMutex_ = "reader")
    /\ [][/\ (frameWindow_' # frameWindow_ \/ anomalies_' # anomalies_) =>
                /\ LoopInside \/ LoopInside'
                /\ ~ReaderInside /\ ~ReaderInside'
          /\ (rcopy' # rcopy \/ rresult' # rresult) =>
                (ReaderInside /\ dataMutex_ = "reader")]_vars

\* A caller of a read API is inside its critical section, the window not
\* empty, while the loop has pulled a frame and waits to push it.
C37_Witness ==
    /\ rpc = "compute"
    /\ dataMutex_ = "reader"
    /\ lpc = "w_lock"
    /\ frame # NoFrame
    /\ frameWindow_ # <<>>

\* The background thread is about to invoke a callback that is set.
InCallback ==
    \/ lpc = "a_cb" /\ anomalyCallback_
    \/ lpc = "f_cb" /\ frameCallback_

\* C38: when the background thread invokes a callback it does not hold
\* dataMutex_, and a read API called from the callback can take the lock.
C38_CallbacksOutsideLock ==
    (InCallback /\ ~terminated) =>
        /\ dataMutex_ # "loop"
        /\ ENABLED Reader_Lock

\* The anomaly callback is about to run for an anomaly of the second frame;
\* the frame callback has run for the first frame.
C38_Witness ==
    /\ lpc = "a_cb"
    /\ anomalyCallback_ /\ frameCallback_
    /\ frameCbCalls = 1
    /\ anomalies_ # <<>>
    /\ dataMutex_ = "free"

\* No background loop is processing or pulling a frame: none runs, or one has
\* just been spawned, or one has left analysisLoop.
LoopAtRest == lpc \in {"none", "top", "exited"}

\* C39: when stop() has returned the source is inactive and no loop runs;
\* from then on, whatever is called, a loop that is spawned leaves
\* analysisLoop at its first test, the source stays inactive, no frame is
\* pulled, and the window, the log, the export file and the numbers of
\* callback invocations stay as they are.
C39_NothingAfterStop ==
    /\ [](stopReturned => (~streamActive /\ lpc = "none"))
    /\ [][(~streamActive /\ LoopAtRest) =>
             /\ ~streamActive'
             /\ LoopAtRest'
             /\ lpc = "top" => lpc' \in {"top", "exited"}
             /\ UNCHANGED <<frameWindow_, anomalies_, exportedLines,
                            frameCbCalls, anomalyCbCalls, srcPos,
                            previousFrame_>>]_vars

\* start() was called again after a stop() that closed the export file: the
\* new loop has left analysisLoop, frames of the first run are in the
\* window and the source had more to deliver.
C39_Witness ==
    /\ exportEnabled_ /\ ~sinkOpen
    /\ running_ /\ joinable
    /\ lpc = "exited"
    /\ ~streamActive
    /\ frameWindow_ # <<>>
    /\ srcPos < SourceLength

(***************************************************************************)
(* Claims about GOPAnalyzer                                                *)
(***************************************************************************)

RECURSIVE SumFrameCount(_)
SumFrameCount(gops) ==
    IF gops = <<>> THEN 0 ELSE Head(gops).frameCount + SumFrameCount(Tail(gops))

\* C20: the frame counts of the segments sum to the number of input frames.
C20_FrameCountsSumToInput ==
    gopRuns > 0 => SumFrameCount(gops_) = Len(gopFrames)

\* Three frames were cut into two segments, on a second run.
C20_Witness ==
    /\ gopRuns = 2
    /\ Len(gopFrames) = 3
    /\ Len(gops_) = 2
    /\ gops_[1].frameCount = 2
    /\ gops_[2].frameCount = 1

\* C21: in every segment the frame count is the sum of the three per-type
\* counts.
C21_CountsAddUp ==
    \A k \in 1..Len(gops_) :
        gops_[k].frameCount =
            gops_[k].iFrameCount + gops_[k].pFrameCount + gops_[k].bFrameCount

\* The positions at which the reference segmentation starts a segment.
RefStarts(frames) ==
    IF frames = <<>> THEN {}
    ELSE {1} \cup {i \in 2..Len(frames) :
                     frames[i].type = "I_FRAME" /\ frames[i].isKeyFrame}

\* The last position of the reference segment starting at s.
RefEnd(frames, s) ==
    IF \E t \in RefStarts(frames) : t > s
    THEN (CHOOSE t \in RefStarts(frames) :
             t > s /\ \A u \in RefStarts(frames) : u > s => t <= u) - 1
    ELSE Len(frames)

\* The start of the k-th reference segment.
RefStart(frames, k) ==
    CHOOSE s \in RefStarts(frames) :
        Cardinality({t \in RefStarts(frames) : t < s}) = k - 1

RECURSIVE RefBytes(_, _, _)
RefBytes(frames, s, e) ==
    IF e < s THEN 0 ELSE RefBytes(frames, s, e - 1) + frames[e].size

\* The k-th segment of the reference segmentation.
RefSegment(frames, k) ==
    LET s == RefStart(frames, k)
        e == RefEnd(frames, s)
        of(type) == Cardinality({j \in s..e : frames[j].type = type})
    IN  [gopIndex |-> k - 1,
         startPts |-> frames[s].pts,
         endPts |-> frames[e].pts,
         frameCount |-> Cardinality(s..e),
         iFrameCount |-> of("I_FRAME"),
         pFrameCount |-> of("P_FRAME"),
         bFrameCount |-> of("B_FRAME"),
         totalSize |-> RefBytes(frames, s, e),
         isOpenGOP |-> FALSE]

RefSegmentation(frames) ==
    [k \in 1..Cardinality(RefStarts(frames)) |-> RefSegment(frames, k)]

\* C22: the segmenter's result is the reference segmentation; empty input
\* gives no segment, an input with no start after its first frame gives one
\* segment of all frames, and scenario B gives (3: 1 I, 2 P), (4: 1 I, 2 P,
\* 1 B).
C22_EqualsReference ==
    gopRuns > 0 =>
        /\ gops_ = RefSegmentation(gopFrames)
        /\ gopFrames = <<>> => gops_ = <<>>
        /\ (gopFrames # <<>> /\ \A i \in 2..Len(gopFrames) :
                ~(gopFrames[i].type = "I_FRAME" /\ gopFrames[i].isKeyFrame))
              => (Len(gops_) = 1 /\ gops_[1].frameCount = Len(gopFrames))
        /\ gopFrames = ScenarioB =>
              /\ Len(gops_) = 2
              /\ gops_[1].frameCount = 3 /\ gops_[1].iFrameCount = 1
              /\ gops_[1].pFrameCount = 2 /\ gops_[1].bFrameCount = 0
              /\ gops_[2].frameCount = 4 /\ gops_[2].iFrameCount = 1
              /\ gops_[2].pFrameCount = 2 /\ gops_[2].bFrameCount = 1

\* Scenario B was segmented.
C22_Witness ==
    /\ gopRuns > 0
    /\ gopFrames = ScenarioB
    /\ Len(gops_) = 2
    /\ gops_[2].gopIndex = 1
    /\ gops_[2].startPts = 4
    /\ gops_[2].totalSize = 220

\* C23: every segment holds at least one I-frame.
C23_EverySegmentHasIntra ==
    \A k \in 1..Len(gops_) : gops_[k].iFrameCount >= 1

(***************************************************************************)
(* Claims about VideoAnalyzer                                              *)
(***************************************************************************)

\* The latest call was a detection that ran to its end.
DetectionRan == outcome = "returned"

\* Frames i - 1 and i of the analyzer match under the arguments of the
\* latest detection.
PairMatches(i) ==
    LET prev == frames_[i - 1]
        cur == frames_[i]
        d == IF cur.size >= prev.size THEN cur.size - prev.size
             ELSE prev.size - cur.size
    IN  /\ 100 * d <= prev.size * lastConfig.size_tolerance
        /\ lastConfig.require_same_qp => cur.qp = prev.qp
        /\ lastConfig.require_same_type => cur.type = prev.type

\* Frame i matches its predecessor, or its successor matches it.
InRun(i) ==
    \/ i >= 2 /\ PairMatches(i)
    \/ i < Len(frames_) /\ PairMatches(i + 1)

\* The pairs at which a run of matching pairs begins.
RunStarts ==
    {j \in 2..Len(frames_) : PairMatches(j) /\ (j = 2 \/ ~PairMatches(j - 1))}

\* The number, from 0, of the run that frame i is in.
RunOf(i) ==
    LET pair == IF i >= 2 /\ PairMatches(i) THEN i ELSE i + 1
    IN  Cardinality({j \in RunStarts : j <= pair}) - 1

\* Scenario C: sizes 1000, 1005, 1200, 1203 at 1% with no QP or type
\* requirement give the groups 0, 0, 1, 1.
ScenarioCGroups ==
    (/\ DetectionRan
     /\ file = ScenarioC
     /\ frames_ # <<>>
     /\ lastConfig = [size_tolerance |-> 1, require_same_qp |-> FALSE,
                      require_same_type |-> FALSE])
    => /\ frames_[1].duplicateGroupId = 0
       /\ frames_[2].duplicateGroupId = 0
       /\ frames_[3].duplicateGroupId = 1
       /\ frames_[4].duplicateGroupId = 1

\* C24: the runs of matching frames get the group ids 0, 1, 2, ... in order
\* of appearance, as in scenario C.
C24_GroupsNumberedInOrder ==
    /\ ScenarioCGroups
    /\ DetectionRan =>
          \A i \in 1..Len(frames_) :
              InRun(i) => frames_[i].duplicateGroupId = RunOf(i)

CleanFrames ==
    [i \in 1..Len(frames_) |->
        [pts |-> frames_[i].pts, size |-> frames_[i].size,
         type |-> frames_[i].type, qp |-> frames_[i].qp,
         isKeyFrame |-> frames_[i].isKeyFrame,
         isDuplicate |-> FALSE, duplicateGroupId |-> -1]]

\* C26: the flags and group ids after a detection are those of a detection
\* on frames that carry no earlier flags, whatever ran before; a detection
\* with the arguments of the detection before it changes nothing.
C26_ResultIsFunctionOfInput ==
    /\ [](DetectionRan => frames_ = detectDuplicateFrames(CleanFrames, lastConfig))
    /\ [][(DetectionRan /\ DetectDuplicates /\ lastConfig' = lastConfig)
            => frames_' = frames_]_vars

\* A detection that never matches has run on frames that the detection
\* inside analyze had flagged.
C26_Witness ==
    /\ DetectionRan
    /\ file = ScenarioC
    /\ lastConfig.size_tolerance = -1
    /\ frames_ = CleanFrames
    /\ Len(frames_) = Len(file)
    /\ \A i \in 1..Len(file) :
          detectDuplicateFrames(CleanFrames, DefaultConfig)[i].isDuplicate

\* C27: a detection with a negative tolerance ends in a configuration
\* error and leaves the flags and group ids as they were.
C27_InvalidToleranceRejected ==
    [][(DetectDuplicates /\ lastConfig'.size_tolerance < 0)
          => (outcome' = "ConfigurationError" /\ frames_' = frames_)]_vars

\* C29: an analysis left by an engine error leaves no frame, no segment and
\* no stream info of that run in the analyzer.
C29_NoPartialOutput ==
    [][(Analyze_Throws /\ outcome' = "FFmpegError")
          => /\ frames_' \in {frames_, <<>>}
             /\ analyzedGops' \in {analyzedGops, <<>>}
             /\ stream_info_' \in {stream_info_, "unset"}]_vars

\* The pool, idle, while another component is examined.
PoolQuiet == PoolInitFor({1}, {1})

\* The analyzer, idle, while another component is examined.
AnalyzerQuiet == AnalyzerInitFor("free", {FALSE}, {FALSE}, {FALSE})

\* The GOP analyzer, with nothing to analyze, while another component is
\* examined.
GopQuiet == GopInitFor({0})

\* A VideoAnalyzer for an empty file, while another component is examined.
VideoQuiet == VideoInitFor({<<>>})

\* The decoder, just constructed, while another component is examined.
PumpQuiet == PumpInitFor({1}, {1}, {1}, {0})

InitPool == PoolInit /\ AnalyzerQuiet /\ PumpQuiet /\ ReaderInit /\ GopQuiet /\ VideoQuiet

SpecPool == InitPool /\ [][PoolNext]_vars

\* Pools for every request from 0 (detect) to MaxRequested threads, on
\* machines that report 0 (unknown) to MaxHardware hardware threads.
InitPoolSized ==
    /\ PoolInitFor(0..MaxRequested, 0..MaxHardware)
    /\ AnalyzerQuiet /\ PumpQuiet /\ ReaderInit /\ GopQuiet /\ VideoQuiet

SpecPoolSized == InitPoolSized /\ [][PoolNext]_vars

InitAnalyzer == PoolQuiet /\ AnalyzerInit /\ PumpQuiet /\ ReaderInit /\ GopQuiet /\ VideoQuiet

SpecAnalyzer == InitAnalyzer /\ [][AnalyzerNext]_vars

\* A runnable thread is eventually scheduled: the background thread keeps
\* taking steps, and a thread inside stop() goes on to its end.
SpecAnalyzerFair ==
    /\ InitAnalyzer
    /\ [][AnalyzerNext]_vars
    /\ WF_vars(LoopStep)
    /\ WF_vars(StopStep)

InitSustained == PoolQuiet /\ SustainedInit /\ PumpQuiet /\ ReaderInit /\ GopQuiet /\ VideoQuiet

SpecSustained == InitSustained /\ [][AnalyzerNext]_vars

\* An analyzer without callbacks or export whose start() and stop() are
\* called by two threads.
InitRace ==
    /\ PoolQuiet
    /\ AnalyzerInitWith(Controllers, "free", {FALSE}, {FALSE}, {FALSE})
    /\ PumpQuiet
    /\ ReaderInit
    /\ GopQuiet
    /\ VideoQuiet

SpecRace == InitRace /\ [][AnalyzerNext]_vars

InitPump == PoolQuiet /\ AnalyzerQuiet /\ PumpInit /\ ReaderInit /\ GopQuiet /\ VideoQuiet

SpecPump == InitPump /\ [][PumpNext]_vars

\* An analyzer without callbacks or export, on a source whose timestamps may
\* step back, with a thread that calls the read APIs.
InitReader ==
    /\ PoolQuiet
    /\ AnalyzerInitFor("unordered", {FALSE}, {FALSE}, {FALSE})
    /\ PumpQuiet
    /\ ReaderInit
    /\ GopQuiet
    /\ VideoQuiet

ReaderSystemNext == AnalyzerNext \/ ReaderNext

SpecReader == InitReader /\ [][ReaderSystemNext]_vars

\* An analyzer with an anomaly callback, on a source that delivers frames at
\* and around the thresholds of the anomaly rules, or the scenario.
InitDetect ==
    /\ PoolQuiet
    /\ \/ AnalyzerInitFor("detect", {FALSE}, {TRUE}, {FALSE})
       \/ AnalyzerInitFor("scenario", {FALSE}, {TRUE}, {FALSE})
    /\ PumpQuiet
    /\ ReaderInit
    /\ GopQuiet
    /\ VideoQuiet

SpecDetect == InitDetect /\ [][AnalyzerNext]_vars

InitGop ==
    PoolQuiet /\ AnalyzerQuiet /\ PumpQuiet /\ ReaderInit /\ GopInit /\ VideoQuiet

SpecGop == InitGop /\ [][GopNext]_vars

InitVideo ==
    PoolQuiet /\ AnalyzerQuiet /\ PumpQuiet /\ ReaderInit /\ GopQuiet /\ VideoInit

SpecVideo == InitVideo /\ [][VideoNext]_vars

====
